---- MODULE Spec2Model ----
(***************************************************************************)
(* Verification model of the advanced-rag-system RAG pipeline:             *)
(*   - chat_service/app/crud/rag.py   : merge_contexts (reciprocal rank    *)
(*     fusion + token budget) and the streaming orchestrator               *)
(*   - file_service/app/api/files.py  : the ingestion pipeline and the     *)
(*     upload / manual process endpoints                                   *)
(*   - file_service/app/chunking/chunker.py : FixedSizeChunker.chunk_text  *)
(*     and ChunkingService.chunk_text with its four strategies             *)
(*   - file_service/app/embedding/embedder.py : embed_chunks, embed_text   *)
(*   - chat_service/app/crud/rag.py   : vector_search inside a query       *)
(*   - common/database/vector.py      : ensure_collection                  *)
(*   - file_service/app/core/vector_integration.py : the points that      *)
(*     store_chunk_embeddings writes, read back by vector_search, and the  *)
(*     shared get_vector_service / get_file_vector_service instances       *)
(*   - chat_service/app/crud/rag.py   : the single-shot and the streaming  *)
(*     request side by side                                                *)
(*   - chat_service/app/api/chat.py   : generate_stream of /stream         *)
(* The specifications share one set of variables; each one drives its own  *)
(* part of the state and leaves the rest at its idle value.                *)
(***************************************************************************)
EXTENDS Integers, Sequences, FiniteSets, TLC

VARIABLES
    \* ---- retrieval / fusion (rag.py) ----
    chunks,         \* search_response.chunks handed to merge_contexts
    max_tokens,     \* settings.max_context_tokens, the max_tokens argument
    mres,           \* ContextMergeResult of the last merge_contexts call
    \* ---- streaming orchestrator (rag.py) ----
    spc,            \* yield point at which the async generator is suspended
    events,         \* StreamingChunks yielded so far, in order
    ncontent,       \* text increments received from the completion stream
    srcIdx,         \* index of the last source yielded
    \* ---- ingestion (files.py, crud/file.py) ----
    status,         \* File.status
    error_message,  \* File.error_message
    tasks,          \* background tasks added and not yet started
    runs,           \* process_file_pipeline invocations
    chunk_records,  \* persisted DocumentChunk rows of the file
    vindex,         \* ids of the points upserted into the vector index
    last_response,  \* HTTP status of the last upload / process request
    \* ---- fixed-size chunker (chunker.py) ----
    ctext,          \* the raw text handed to chunk_text
    chunk_size,     \* self.chunk_size
    overlap,        \* self.overlap
    cpc,            \* position inside FixedSizeChunker.chunk_text
    cstart,         \* local variable start
    cchunks,        \* local list chunks: <<start_position, end_position>>
    \* ---- chunking service (chunker.py) ----
    strategy,       \* the strategy argument of ChunkingService.chunk_text
    sresult,        \* how the call ended and the chunks it returned
    \* ---- embedding service (embedder.py) ----
    etexts,         \* chunk["text"] of the chunks handed to embed_chunks
    efails,         \* texts for which the provider's generate_embedding raises
    ebatch,         \* behaviour of the provider's generate_embeddings call
    epc,            \* position inside embed_chunks
    eresult,        \* enriched_chunks built so far
    esingle,        \* results of separate embed_text calls, by position
    \* ---- vector search of a query (rag.py) ----
    qmode,          \* single-shot or streaming request
    qcolls,         \* request.collection_ids
    qhits,          \* what the vector index returns per collection
    qfail,          \* collections whose search call raises
    qpc,            \* position inside the request
    qi,             \* collections of the request searched so far
    qall,           \* all_chunks accumulated by vector_search
    qresult,        \* ContextMergeResult, once merge_contexts has run
    \* ---- vector store collections (vector.py) ----
    vcollections,   \* names of the collections the vector store holds
    callers,        \* ensure_collection calls in progress
    \* ---- ingestion into and query of the vector index ----
    icoll,          \* collection_id argument of store_chunk_embeddings
    ichunks,        \* DocumentChunk rows handed to store_chunk_embeddings
    ipc,            \* how store_chunk_embeddings ended
    qdrant,         \* the vector store: collection names and points
    lookup,         \* how the last vector_search over the store ended
    \* ---- the two query modes side by side (rag.py) ----
    mreq,           \* the RAGRequest: collection_ids and top_k
    mindex,         \* neighbours the index holds per collection, best first
    single,         \* what process_rag_request searched, selected, reported
    stream,         \* the same for process_streaming_rag_request
    \* ---- shared vector service instances (vector.py, vector_integration.py) ----
    vservice,       \* the module-level singletons and the connections made
    vusers,         \* coroutines using the shared vector service
    \* ---- the /stream endpoint (chat.py) ----
    hpc,            \* position inside generate_stream
    sent,           \* types of the events sent to the client, in order
    response_content, \* content increments collected for storage
    assistant       \* the assistant message stored, if any

ragVars   == <<chunks, max_tokens, mres>>
strVars   == <<spc, events, ncontent, srcIdx>>
fileVars  == <<status, error_message, tasks, runs, chunk_records, vindex, last_response>>
chunkVars == <<ctext, chunk_size, overlap, cpc, cstart, cchunks>>
stratVars == <<strategy, sresult>>
embVars   == <<etexts, efails, ebatch, epc, eresult, esingle>>
srchVars  == <<qmode, qcolls, qhits, qfail, qpc, qi, qall, qresult>>
ensVars   == <<vcollections, callers>>
idxVars   == <<icoll, ichunks, ipc, qdrant, lookup>>
modeVars  == <<mreq, mindex, single, stream>>
cliVars   == <<vservice, vusers>>
chatVars  == <<hpc, sent, response_content, assistant>>
auxVars   == <<idxVars, modeVars, cliVars, chatVars>>
extVars   == <<stratVars, embVars, srchVars, ensVars, auxVars>>
baseVars  == <<ragVars, strVars, fileVars, chunkVars>>
coreVars  == <<baseVars, stratVars, embVars, srchVars, ensVars>>
idxFrame  == <<coreVars, modeVars, cliVars, chatVars>>
modeFrame == <<coreVars, idxVars, cliVars, chatVars>>
cliFrame  == <<coreVars, idxVars, modeVars, chatVars>>
chatFrame == <<fileVars, chunkVars, stratVars, embVars, srchVars, ensVars,
               idxVars, modeVars, cliVars>>
vars      == <<ragVars, strVars, fileVars, chunkVars, extVars>>

----------------------------------------------------------------------------
\* Bounds of the model

MaxChunks  == 4     \* longest list of retrieved chunks given to merge_contexts
MaxBudget  == 3     \* largest token budget explored
MaxHits    == 2     \* longest search response inside a streamed query
MaxContent == 2     \* most content increments the completion stream yields
MaxRuns    == 2     \* pipeline runs explored for the file
MaxFileChunks == 2  \* most chunks the chunker returns inside a pipeline run
MaxLen     == 5     \* longest raw text given to the fixed-size chunker
MaxSize    == 3     \* largest chunk_size / overlap explored
MaxIter    == 8     \* loop iterations of chunk_text explored before cut-off
MaxText    == 4     \* longest raw text given to the chunking service
MaxEmbed   == 3     \* longest list of chunks given to embed_chunks
MaxColls   == 2     \* longest collection_ids list of a query
MaxCallers == 2     \* concurrent ensure_collection calls
MaxPoints  == 2     \* most chunks handed to store_chunk_embeddings
MaxStored  == 3     \* most neighbours a collection holds for a query
MaxTopK    == 2     \* largest request.top_k explored
MaxUsers   == 3     \* coroutines using the shared vector service

----------------------------------------------------------------------------
\* Generic helpers

Front(s) == SubSeq(s, 1, Len(s) - 1)

Range(s) == { s[i] : i \in 1..Len(s) }

\* Python's sorted(..., reverse=True): stable, descending on the key field k.
RECURSIVE InsertStable_TiesReversed(_, _)
InsertStable_TiesReversed(s, x) ==
    IF s = <<>> THEN <<x>>
    ELSE IF s[Len(s)].k > x.k THEN Append(s, x)
    ELSE Append(InsertStable_TiesReversed(Front(s), x), s[Len(s)])

RECURSIVE InsertStable(_, _)
InsertStable(s, x) ==
    IF s = <<>> THEN <<x>>
    ELSE IF s[Len(s)].k >= x.k THEN Append(s, x)
    ELSE Append(InsertStable(Front(s), x), s[Len(s)])

RECURSIVE SortedDesc(_)
SortedDesc(s) ==
    IF s = <<>> THEN <<>>
    ELSE InsertStable(SortedDesc(Front(s)), s[Len(s)])

----------------------------------------------------------------------------
\* RetrievedChunk values

ChunkIds      == {1, 2, 3}
CollectionIds == {"A", "B"}
Similarities  == {1, 2}

\* len(chunk.content) of the chunk with a given id
ContentLen(id) == CASE id = 1 -> 8 [] id = 2 -> 4 [] OTHER -> 3

RetrievedChunk(id, coll, sim) ==
    [chunk_id |-> id, collection_id |-> coll, similarity_score |-> sim,
     content_len |-> ContentLen(id)]

AllChunks == { RetrievedChunk(id, c, s) : id \in ChunkIds, c \in CollectionIds,
                                           s \in Similarities }

\* A search response: per collection the vector index returns distinct points.
Clashes(cs, c) ==
    \E i \in 1..Len(cs) : cs[i].chunk_id = c.chunk_id
                          /\ cs[i].collection_id = c.collection_id

RECURSIVE ListsOfLen(_)
ListsOfLen(n) ==
    IF n = 0 THEN { <<>> }
    ELSE UNION { { Append(cs, c) : c \in { x \in AllChunks : ~Clashes(cs, x) } }
                 : cs \in ListsOfLen(n - 1) }

SearchResponses(n) == UNION { ListsOfLen(m) : m \in 0..n }

----------------------------------------------------------------------------
\* RAGService.merge_contexts

rrf_k == 60

\* 1.0 / (rrf_k + rank) is kept exact as RRFScale / (rrf_k + rank): RRFScale
\* is a common multiple of every denominator a rank can produce.
RECURSIVE RRFProduct(_)
RRFProduct(n) == IF n = 0 THEN 1 ELSE (rrf_k + n) * RRFProduct(n - 1)

\* a rank never exceeds the number of distinct chunk ids of one collection
MaxRank == Cardinality(ChunkIds)

RRFScale == RRFProduct(MaxRank)

RRFTerm(rank) == RRFScale \div (rrf_k + rank)

\* keys of collection_chunks, in dict insertion order
RECURSIVE CollectionOrder(_)
CollectionOrder(cs) ==
    IF cs = <<>> THEN <<>>
    ELSE LET rest == CollectionOrder(Front(cs))
             c    == cs[Len(cs)].collection_id
         IN  IF c \in Range(rest) THEN rest ELSE Append(rest, c)

\* collection_chunks[c]
CollectionChunks(cs, c) == SelectSeq(cs, LAMBDA x : x.collection_id = c)

\* sorted(collection_chunks_list, key=similarity_score, reverse=True)
SortBySimilarity(cs) ==
    LET keyed  == [i \in 1..Len(cs) |-> [k |-> cs[i].similarity_score, v |-> cs[i]]]
        sorted == SortedDesc(keyed)
    IN  [i \in 1..Len(cs) |-> sorted[i].v]

\* one pass of the body of "for rank, chunk in enumerate(sorted_chunks, 1)"
AddScore_PerCollection(scores, chunk, rank) ==
    Append(scores, [key |-> chunk.chunk_id, chunk |-> chunk, k |-> RRFTerm(rank)])

AddScore(scores, chunk, rank) ==
    IF \E i \in 1..Len(scores) : scores[i].key = chunk.chunk_id
    THEN [i \in 1..Len(scores) |->
            IF scores[i].key = chunk.chunk_id
            THEN [scores[i] EXCEPT !.k = @ + RRFTerm(rank)]
            ELSE scores[i]]
    ELSE Append(scores, [key |-> chunk.chunk_id, chunk |-> chunk, k |-> RRFTerm(rank)])

RECURSIVE ScoreCollection(_, _, _)
ScoreCollection(scores, sorted, n) ==
    IF n = 0 THEN scores
    ELSE AddScore(ScoreCollection(scores, sorted, n - 1), sorted[n], n)

\* rrf_scores after the first m collections, values in dict insertion order
RECURSIVE RRFScores(_, _, _)
RRFScores(cs, order, m) ==
    IF m = 0 THEN <<>>
    ELSE LET sorted == SortBySimilarity(CollectionChunks(cs, order[m]))
         IN  ScoreCollection(RRFScores(cs, order, m - 1), sorted, Len(sorted))

\* sorted(rrf_scores.values(), key=score, reverse=True)
FusedRanking(cs) ==
    LET order == CollectionOrder(cs)
    IN  SortedDesc(RRFScores(cs, order, Len(order)))

ChunkTokens(chunk) == chunk.content_len \div 4

\* the selection loop: "for item in sorted_chunks: ... else: break"
RECURSIVE SelectChunks_NoBreak(_, _, _, _, _)
SelectChunks_NoBreak(ranked, i, selected, total, budget) ==
    IF i > Len(ranked) THEN [selected |-> selected, total |-> total]
    ELSE IF total + ChunkTokens(ranked[i].chunk) <= budget
         THEN SelectChunks_NoBreak(ranked, i + 1, Append(selected, ranked[i].chunk),
                                   total + ChunkTokens(ranked[i].chunk), budget)
         ELSE SelectChunks_NoBreak(ranked, i + 1, selected, total, budget)

RECURSIVE SelectChunks_CheckBefore(_, _, _, _, _)
SelectChunks_CheckBefore(ranked, i, selected, total, budget) ==
    IF i > Len(ranked) THEN [selected |-> selected, total |-> total]
    ELSE IF total <= budget
         THEN SelectChunks_CheckBefore(ranked, i + 1, Append(selected, ranked[i].chunk),
                                       total + ChunkTokens(ranked[i].chunk), budget)
         ELSE [selected |-> selected, total |-> total]

RECURSIVE SelectChunks(_, _, _, _, _)
SelectChunks(ranked, i, selected, total, budget) ==
    IF i > Len(ranked) THEN [selected |-> selected, total |-> total]
    ELSE IF total + ChunkTokens(ranked[i].chunk) <= budget
         THEN SelectChunks(ranked, i + 1, Append(selected, ranked[i].chunk),
                           total + ChunkTokens(ranked[i].chunk), budget)
         ELSE [selected |-> selected, total |-> total]

\* context_parts: the "[Source i] <content>" blocks, joined by blank lines
ContextParts(selected) ==
    [i \in 1..Len(selected) |-> [label |-> i, content |-> selected[i].chunk_id]]

\* "\n\n".join(context_parts), as the sequence of its tokens
RECURSIVE JoinBlankLine(_)
JoinBlankLine(parts) ==
    IF parts = <<>> THEN <<>>
    ELSE LET p     == parts[Len(parts)]
             block == <<"[Source", p.label, "]", p.content>>
         IN  IF Len(parts) = 1 THEN block
             ELSE JoinBlankLine(Front(parts)) \o <<"\n\n">> \o block

merge_contexts(cs, budget) ==
    LET ranked == FusedRanking(cs)
        sel    == SelectChunks(ranked, 1, <<>>, 0, budget)
    IN  [ranking         |-> ranked,
         selected_chunks |-> sel.selected,
         total_tokens    |-> sel.total,
         merged_context  |-> JoinBlankLine(ContextParts(sel.selected)),
         collections_searched   |-> Len(CollectionOrder(cs)),
         total_chunks_available |-> Len(cs)]

NoResult == [ranking |-> <<>>, selected_chunks |-> <<>>, total_tokens |-> -1,
             merged_context |-> <<>>, collections_searched |-> -1,
             total_chunks_available |-> -1]

----------------------------------------------------------------------------
\* Idle values of the parts a specification does not drive

RagIdle   == chunks = <<>> /\ max_tokens = 0 /\ mres = NoResult
StrIdle   == spc = "idle" /\ events = <<>> /\ ncontent = 0 /\ srcIdx = 0
FileIdle  == /\ status = "none" /\ error_message = <<>> /\ tasks = 0
             /\ runs = <<>> /\ chunk_records = <<>> /\ vindex = {}
             /\ last_response = 0
ChunkIdle == /\ ctext = <<>> /\ chunk_size = 1 /\ overlap = 0
             /\ cpc = "idle" /\ cstart = 0 /\ cchunks = <<>>
StratIdle == strategy = "none" /\ sresult = [outcome |-> "none", chunks |-> <<>>]
EmbIdle   == /\ etexts = <<>> /\ efails = {} /\ ebatch = "none" /\ epc = "idle"
             /\ eresult = <<>> /\ esingle = <<>>
SrchIdle  == /\ qmode = "none" /\ qcolls = <<>> /\ qhits = <<>> /\ qfail = {}
             /\ qpc = "idle" /\ qi = 0 /\ qall = <<>> /\ qresult = NoResult
EnsIdle   == vcollections = <<>> /\ callers = <<>>
NoLookup  == [outcome |-> "none", collection_id |-> "none",
              collection_name |-> <<>>, chunks |-> {}]
IdxIdle   == /\ icoll = "none" /\ ichunks = <<>> /\ ipc = "idle"
             /\ qdrant = [collections |-> {}, points |-> {}]
             /\ lookup = NoLookup
NotRun    == [outcome |-> "none", searches |-> <<>>, selected_chunks |-> <<>>,
              sources |-> <<>>]
ModeIdle  == /\ mreq = [collection_ids |-> <<>>, top_k |-> 0]
             /\ mindex = <<>> /\ single = NotRun /\ stream = NotRun
NoService == [vs  |-> [exists |-> FALSE, initialized |-> FALSE, client |-> 0],
              fvs |-> [exists |-> FALSE, vector_service |-> FALSE],
              connections |-> 0]
CliIdle   == vservice = NoService /\ vusers = <<>>
NoMessage == [stored |-> FALSE, content |-> 0, stream_end |-> "none"]
ChatIdle  == /\ hpc = "idle" /\ sent = <<>> /\ response_content = 0
             /\ assistant = NoMessage
AuxIdle   == IdxIdle /\ ModeIdle /\ CliIdle /\ ChatIdle
ExtIdle   == StratIdle /\ EmbIdle /\ SrchIdle /\ EnsIdle /\ AuxIdle
CoreIdle  == /\ RagIdle /\ StrIdle /\ FileIdle /\ ChunkIdle
             /\ StratIdle /\ EmbIdle /\ SrchIdle /\ EnsIdle

----------------------------------------------------------------------------
\* Specification SpecMerge: merge_contexts applied to every bounded input

InitMerge ==
    /\ chunks \in SearchResponses(MaxChunks)
    /\ max_tokens \in 0..MaxBudget
    /\ mres = NoResult
    /\ StrIdle /\ FileIdle /\ ChunkIdle /\ ExtIdle

MergeContexts ==
    /\ mres = NoResult
    /\ mres' = merge_contexts(chunks, max_tokens)
    /\ UNCHANGED <<chunks, max_tokens, strVars, fileVars, chunkVars, extVars>>

NextMerge == MergeContexts

SpecMerge == InitMerge /\ [][NextMerge]_vars

----------------------------------------------------------------------------
\* Specification SpecStream: RAGService.process_streaming_rag_request

StreamingChunk(t, d) == [type |-> t, data |-> d]

\* RAGService._extract_source_attribution
ExtractSourceAttribution_Reversed(selected) ==
    [i \in 1..Len(selected) |->
        [chunk_id        |-> selected[Len(selected) + 1 - i].chunk_id,
         collection_id   |-> selected[Len(selected) + 1 - i].collection_id,
         relevance_score |-> selected[Len(selected) + 1 - i].similarity_score]]

ExtractSourceAttribution(selected) ==
    [i \in 1..Len(selected) |->
        [chunk_id        |-> selected[i].chunk_id,
         collection_id   |-> selected[i].collection_id,
         relevance_score |-> selected[i].similarity_score]]

Sources == ExtractSourceAttribution(mres.selected_chunks)

InitStream ==
    /\ chunks = <<>>
    /\ max_tokens \in 0..MaxBudget
    /\ mres = NoResult
    /\ spc = "created" /\ events = <<>> /\ ncontent = 0 /\ srcIdx = 0
    /\ FileIdle /\ ChunkIdle /\ ExtIdle

\* first resumption: runs up to the yield of the generating_embedding status
StreamStart ==
    /\ spc = "created"
    /\ events' = Append(events, StreamingChunk("status", "generating_embedding"))
    /\ spc' = "embedding"
    /\ UNCHANGED <<ragVars, ncontent, srcIdx, fileVars, chunkVars, extVars>>

\* generate_embedding returned
EmbeddingDone ==
    /\ spc = "embedding"
    /\ events' = Append(events, StreamingChunk("status", "searching_vectors"))
    /\ spc' = "searching"
    /\ UNCHANGED <<ragVars, ncontent, srcIdx, fileVars, chunkVars, extVars>>

\* vector_search returned search_response
SearchDone ==
    /\ spc = "searching"
    /\ \E cs \in SearchResponses(MaxHits) : chunks' = cs
    /\ events' = Append(events, StreamingChunk("status", "merging_context"))
    /\ spc' = "merging"
    /\ UNCHANGED <<max_tokens, mres, ncontent, srcIdx, fileVars, chunkVars, extVars>>

\* merge_contexts and _extract_source_attribution returned; the generator
\* runs on to its next yield: the first source, or the generating_response
\* status when nothing was selected
MergeDone ==
    /\ spc = "merging"
    /\ mres' = merge_contexts(chunks, max_tokens)
    /\ LET sources == ExtractSourceAttribution(mres'.selected_chunks)
       IN  IF Len(sources) > 0
           THEN /\ events' = Append(events, StreamingChunk("source", sources[1]))
                /\ srcIdx' = 1
                /\ spc' = "sources"
           ELSE /\ events' = Append(events, StreamingChunk("status", "generating_response"))
                /\ srcIdx' = 0
                /\ spc' = "generating"
    /\ UNCHANGED <<chunks, max_tokens, ncontent, fileVars, chunkVars, extVars>>

\* "for source in sources: yield", then the generating_response status
NextSource_NoStatus ==
    /\ spc = "sources"
    /\ IF srcIdx < Len(Sources)
       THEN /\ events' = Append(events, StreamingChunk("source", Sources[srcIdx + 1]))
            /\ srcIdx' = srcIdx + 1
            /\ spc' = "sources"
       ELSE /\ events' = events
            /\ srcIdx' = srcIdx
            /\ spc' = "generating"
    /\ UNCHANGED <<ragVars, ncontent, fileVars, chunkVars, extVars>>

NextSource ==
    /\ spc = "sources"
    /\ IF srcIdx < Len(Sources)
       THEN /\ events' = Append(events, StreamingChunk("source", Sources[srcIdx + 1]))
            /\ srcIdx' = srcIdx + 1
            /\ spc' = "sources"
       ELSE /\ events' = Append(events, StreamingChunk("status", "generating_response"))
            /\ srcIdx' = srcIdx
            /\ spc' = "generating"
    /\ UNCHANGED <<ragVars, ncontent, fileVars, chunkVars, extVars>>

\* stream_llm_response yielded one more text increment
ContentChunk ==
    /\ spc = "generating"
    /\ ncontent < MaxContent
    /\ ncontent' = ncontent + 1
    /\ events' = Append(events, StreamingChunk("content", ncontent + 1))
    /\ UNCHANGED <<ragVars, spc, srcIdx, fileVars, chunkVars, extVars>>

\* stream_llm_response is exhausted: the completion metadata is yielded
GenerationEnd ==
    /\ spc = "generating"
    /\ events' = Append(events, StreamingChunk("metadata",
                    [chunks_retrieved |-> Len(chunks),
                     chunks_used      |-> Len(mres.selected_chunks),
                     sources_count    |-> Len(Sources)]))
    /\ spc' = "metadata"
    /\ UNCHANGED <<ragVars, ncontent, srcIdx, fileVars, chunkVars, extVars>>

StreamDone ==
    /\ spc = "metadata"
    /\ events' = Append(events, StreamingChunk("done", "completed"))
    /\ spc' = "done"
    /\ UNCHANGED <<ragVars, ncontent, srcIdx, fileVars, chunkVars, extVars>>

\* the awaited call of the current stage raises: "except Exception" yields
\* the error event
StreamFail_Resumes ==
    /\ spc \in {"embedding", "searching", "merging", "generating"}
    /\ events' = Append(events, StreamingChunk("error", "failed"))
    /\ spc' = IF spc = "generating" THEN "generating" ELSE "error"
    /\ UNCHANGED <<ragVars, ncontent, srcIdx, fileVars, chunkVars, extVars>>

StreamFail ==
    /\ spc \in {"embedding", "searching", "merging", "generating"}
    /\ events' = Append(events, StreamingChunk("error", "failed"))
    /\ spc' = "error"
    /\ UNCHANGED <<ragVars, ncontent, srcIdx, fileVars, chunkVars, extVars>>

\* resumed after the terminal yield: the generator returns
StreamReturn ==
    /\ spc \in {"done", "error"}
    /\ spc' = "end"
    /\ UNCHANGED <<ragVars, events, ncontent, srcIdx, fileVars, chunkVars, extVars>>

NextStream ==
    \/ StreamStart
    \/ EmbeddingDone
    \/ SearchDone
    \/ MergeDone
    \/ NextSource
    \/ ContentChunk
    \/ GenerationEnd
    \/ StreamDone
    \/ StreamFail
    \/ StreamReturn

SpecStream == InitStream /\ [][NextStream]_vars

----------------------------------------------------------------------------
\* Specification SpecChunk: FixedSizeChunker.chunk_text

Chars == {"a", " "}

IsSpace(c) == c \in {" ", "\n", "\t"}

RECURSIVE TextsOfLen(_)
TextsOfLen(n) ==
    IF n = 0 THEN { <<>> }
    ELSE { Append(t, c) : t \in TextsOfLen(n - 1), c \in Chars }

Texts == UNION { TextsOfLen(n) : n \in 0..MaxLen }

\* re.sub(r"\s+", " ", text): the first character of every whitespace run is
\* kept, as one space, and the rest of the run is dropped
CollapseWhitespace(t) ==
    LET tagged == [i \in 1..Len(t) |-> <<i, t[i]>>]
        kept   == SelectSeq(tagged,
                      LAMBDA p : \/ ~IsSpace(p[2])
                                 \/ p[1] = 1
                                 \/ ~IsSpace(t[p[1] - 1]))
    IN  [k \in 1..Len(kept) |-> IF IsSpace(kept[k][2]) THEN " " ELSE kept[k][2]]

\* str.strip()
RECURSIVE Strip(_)
Strip(t) ==
    IF t = <<>> THEN <<>>
    ELSE IF IsSpace(t[1]) THEN Strip(Tail(t))
    ELSE IF IsSpace(t[Len(t)]) THEN Strip(Front(t))
    ELSE t

\* BaseChunker._clean_text
CleanText(t) == Strip(CollapseWhitespace(t))

Min(a, b) == IF a <= b THEN a ELSE b

Max(a, b) == IF a >= b THEN a ELSE b

\* Python's text[a:b], negative bounds counted from the end
PySlice(t, a, b) ==
    LET n  == Len(t)
        lo == IF a < 0 THEN Max(a + n, 0) ELSE Min(a, n)
        hi == IF b < 0 THEN Max(b + n, 0) ELSE Min(b, n)
    IN  IF lo >= hi THEN <<>> ELSE SubSeq(t, lo + 1, hi)

\* BaseChunker._create_chunk
CreateChunk(t, index, start_pos, end_pos) ==
    [text |-> Strip(t), index |-> index,
     start_position |-> start_pos, end_position |-> end_pos]

\* the text after "text = self._clean_text(text)"
CleanedText == CleanText(ctext)

InitChunk ==
    /\ ctext \in Texts
    /\ chunk_size \in 1..MaxSize
    /\ overlap \in 0..MaxSize
    /\ cpc = "call" /\ cstart = 0 /\ cchunks = <<>>
    /\ RagIdle /\ StrIdle /\ FileIdle /\ ExtIdle

\* entry of chunk_text: a text that fits is returned as a single chunk
ChunkEnter ==
    /\ cpc = "call"
    /\ IF Len(CleanedText) <= chunk_size
       THEN /\ cchunks' = <<CreateChunk(CleanedText, 0, 0, Len(CleanedText))>>
            /\ cpc' = "done"
       ELSE /\ cchunks' = <<>>
            /\ cpc' = "loop"
    /\ cstart' = 0
    /\ UNCHANGED <<ctext, chunk_size, overlap, ragVars, strVars, fileVars, extVars>>

\* one iteration of "while start < len(text)", up to the next loop test
ChunkIter ==
    /\ cpc = "loop"
    /\ cstart < Len(CleanedText)
    /\ Len(cchunks) < MaxIter
    /\ LET end   == Min(cstart + chunk_size, Len(CleanedText))
           chunk == CreateChunk(PySlice(CleanedText, cstart, end),
                                Len(cchunks), cstart, end)
           next  == end - overlap
       IN  /\ cchunks' = Append(cchunks, chunk)
           /\ cstart' = next
           /\ cpc' = IF next >= end \/ ~(next < Len(CleanedText))
                     THEN "done" ELSE "loop"
    /\ UNCHANGED <<ctext, chunk_size, overlap, ragVars, strVars, fileVars, extVars>>

NextChunk ==
    \/ ChunkEnter
    \/ ChunkIter

SpecChunk == InitChunk /\ [][NextChunk]_vars

----------------------------------------------------------------------------
\* Specification SpecFiles: upload_file, process_file, process_file_pipeline

\* the ways TextExtractionService.extract_text reports failure
ExtractionErrors == {"no_extractor", "file_not_found", "undecodable", "not_implemented"}

\* the ways the vector-store step can end
VectorOutcomes == {"stored", "init_failed", "ensure_failed", "upsert_failed"}

\* local state of a started process_file_pipeline invocation
NewRun ==
    [pc |-> "extract",        \* next step of the pipeline
     extraction |-> "none",   \* extraction_result["success"]
     nchunks |-> 0,           \* chunk records created by this run
     first |-> 0,             \* chunk_records index before this run's records
     successful |-> {},       \* successful_chunks, as indices into chunk_records
     embed_calls |-> 0,       \* calls of embedding_service.embed_chunks
     upserts |-> 0,           \* upsert_points calls issued
     vector |-> "none",       \* outcome of the vector-store step
     vector_failure_logged |-> FALSE,
     final |-> "none"]        \* last terminal status written by this run

RunIds == 1..Len(runs)

InitFiles ==
    /\ status = "none" /\ error_message = <<>> /\ tasks = 0
    /\ runs = <<>> /\ chunk_records = <<>> /\ vindex = {}
    /\ last_response = 0
    /\ RagIdle /\ StrIdle /\ ChunkIdle /\ ExtIdle

\* POST /upload: FileCRUD.create_file, then the optional background task
upload_file(auto_process) ==
    /\ status = "none"
    /\ status' = "uploaded"
    /\ tasks' = IF auto_process THEN tasks + 1 ELSE tasks
    /\ last_response' = 200
    /\ UNCHANGED <<error_message, runs, chunk_records, vindex,
                   ragVars, strVars, chunkVars, extVars>>

\* POST /{file_id}/process
process_file ==
    /\ (status \in {"uploaded", "failed"}) => (tasks + Len(runs) < MaxRuns)
    /\ IF status = "none"
       THEN /\ last_response' = 404 /\ tasks' = tasks
       ELSE IF status \in {"processing", "processed"}
       THEN /\ last_response' = 409 /\ tasks' = tasks
       ELSE /\ last_response' = 200 /\ tasks' = tasks + 1
    /\ UNCHANGED <<status, error_message, runs, chunk_records, vindex,
                   ragVars, strVars, chunkVars, extVars>>

\* a background task starts: get_file_by_id, update_file_status(PROCESSING)
RunStart_NoStatusUpdate ==
    /\ tasks > 0
    /\ tasks' = tasks - 1
    /\ runs' = Append(runs, NewRun)
    /\ status' = status
    /\ UNCHANGED <<error_message, chunk_records, vindex, last_response,
                   ragVars, strVars, chunkVars, extVars>>

RunStart ==
    /\ tasks > 0
    /\ tasks' = tasks - 1
    /\ runs' = Append(runs, NewRun)
    /\ status' = "processing"
    /\ UNCHANGED <<error_message, chunk_records, vindex, last_response,
                   ragVars, strVars, chunkVars, extVars>>

\* extract_text succeeded; update_extracted_text
ExtractOk(r) ==
    /\ runs[r].pc = "extract"
    /\ runs' = [runs EXCEPT ![r].pc = "chunk", ![r].extraction = "ok"]
    /\ UNCHANGED <<status, error_message, tasks, chunk_records, vindex,
                   last_response, ragVars, strVars, chunkVars, extVars>>

\* extract_text reported failure: FAILED with the error message, return
ExtractFail_Continues(r, reason) ==
    /\ runs[r].pc = "extract"
    /\ status' = "failed"
    /\ error_message' = <<"Text extraction failed", reason>>
    /\ runs' = [runs EXCEPT ![r].pc = "chunk", ![r].extraction = "failed",
                            ![r].final = "failed"]
    /\ UNCHANGED <<tasks, chunk_records, vindex, last_response,
                   ragVars, strVars, chunkVars, extVars>>

ExtractFail(r, reason) ==
    /\ runs[r].pc = "extract"
    /\ status' = "failed"
    /\ error_message' = <<"Text extraction failed", reason>>
    /\ runs' = [runs EXCEPT ![r].pc = "done", ![r].extraction = "failed",
                            ![r].final = "failed"]
    /\ UNCHANGED <<tasks, chunk_records, vindex, last_response,
                   ragVars, strVars, chunkVars, extVars>>

\* chunking_service.chunk_text returned n chunks; FileChunkCRUD.create_chunks
ChunkAndStore(r, n) ==
    /\ runs[r].pc = "chunk"
    /\ chunk_records' = chunk_records \o
          [i \in 1..n |-> [id |-> Len(chunk_records) + i, run |-> r,
                           chunk_index |-> i - 1, embedded |-> FALSE,
                           vector_id |-> 0]]
    /\ runs' = [runs EXCEPT ![r].pc = "embed", ![r].nchunks = n,
                            ![r].first = Len(chunk_records)]
    /\ UNCHANGED <<status, error_message, tasks, vindex, last_response,
                   ragVars, strVars, chunkVars, extVars>>

\* chunk_text raised: the outer "except Exception" marks the file FAILED
ChunkRaises(r) ==
    /\ runs[r].pc = "chunk"
    /\ status' = "failed"
    /\ error_message' = <<"Processing pipeline failed", "chunking">>
    /\ runs' = [runs EXCEPT ![r].pc = "done", ![r].final = "failed"]
    /\ UNCHANGED <<tasks, chunk_records, vindex, last_response,
                   ragVars, strVars, chunkVars, extVars>>

\* embed_chunks returned; ok[i] is the success flag of the run's i-th chunk.
\* The loop over chunk_records stores the embedding info of the successes.
Embed(r, ok) ==
    /\ runs[r].pc = "embed"
    /\ LET succ == { runs[r].first + i : i \in { j \in 1..runs[r].nchunks : ok[j] } }
       IN  /\ chunk_records' = [i \in 1..Len(chunk_records) |->
                  IF i \in succ THEN [chunk_records[i] EXCEPT !.embedded = TRUE]
                  ELSE chunk_records[i]]
           /\ runs' = [runs EXCEPT ![r].successful = succ,
                          ![r].embed_calls = @ + 1,
                          ![r].pc = IF succ # {} THEN "vector" ELSE "finish",
                          ![r].vector = IF succ # {} THEN "none" ELSE "skipped"]
    /\ UNCHANGED <<status, error_message, tasks, vindex, last_response,
                   ragVars, strVars, chunkVars, extVars>>

FirstOf(S) == CHOOSE x \in S : \A y \in S : x <= y

\* the try block around store_chunk_embeddings and the vector-id updates.
\* After a successful upsert the first update_chunk_embedding(.., None, ..)
\* assigns vector_id and then raises on len(None); the inner except logs it.
VectorStore_Demotes(r, outcome) ==
    /\ runs[r].pc = "vector"
    /\ status' = IF outcome = "stored" THEN status ELSE "failed"
    /\ vindex' = IF outcome = "stored" THEN vindex \cup runs[r].successful ELSE vindex
    /\ chunk_records' = chunk_records
    /\ runs' = [runs EXCEPT ![r].pc = IF outcome = "stored" THEN "finish" ELSE "done",
                            ![r].vector = outcome,
                            ![r].final = IF outcome = "stored" THEN @ ELSE "failed",
                            ![r].vector_failure_logged = TRUE]
    /\ UNCHANGED <<error_message, tasks, last_response, ragVars, strVars, chunkVars, extVars>>

VectorStore(r, outcome) ==
    /\ runs[r].pc = "vector"
    /\ vindex' = IF outcome = "stored" THEN vindex \cup runs[r].successful ELSE vindex
    /\ chunk_records' =
          IF outcome = "stored"
          THEN [chunk_records EXCEPT ![FirstOf(runs[r].successful)].vector_id =
                                          FirstOf(runs[r].successful)]
          ELSE chunk_records
    /\ runs' = [runs EXCEPT ![r].pc = "finish",
                            ![r].vector = outcome,
                            ![r].upserts = IF outcome \in {"stored", "upsert_failed"}
                                           THEN @ + 1 ELSE @,
                            ![r].vector_failure_logged = TRUE]
    /\ UNCHANGED <<status, error_message, tasks, last_response,
                   ragVars, strVars, chunkVars, extVars>>

\* update_file_status(PROCESSED, processing_metadata)
Finish(r) ==
    /\ runs[r].pc = "finish"
    /\ status' = "processed"
    /\ runs' = [runs EXCEPT ![r].pc = "done", ![r].final = "processed"]
    /\ UNCHANGED <<error_message, tasks, chunk_records, vindex, last_response,
                   ragVars, strVars, chunkVars, extVars>>

NextFiles ==
    \/ \E auto \in BOOLEAN : upload_file(auto)
    \/ process_file
    \/ RunStart
    \/ \E r \in RunIds : ExtractOk(r)
    \/ \E r \in RunIds, reason \in ExtractionErrors : ExtractFail(r, reason)
    \/ \E r \in RunIds, n \in 0..MaxFileChunks : ChunkAndStore(r, n)
    \/ \E r \in RunIds : ChunkRaises(r)
    \/ \E r \in RunIds : \E ok \in [1..runs[r].nchunks -> BOOLEAN] : Embed(r, ok)
    \/ \E r \in RunIds, outcome \in VectorOutcomes : VectorStore(r, outcome)
    \/ \E r \in RunIds : Finish(r)

SpecFiles == InitFiles /\ [][NextFiles]_vars

----------------------------------------------------------------------------
\* Specification SpecStrategy: ChunkingService.chunk_text and the chunkers

Strategies == {"fixed", "recursive", "paragraph", "semantic"}

StratChars == {"a", " ", "\n", "."}

RECURSIVE StratTextsOfLen(_)
StratTextsOfLen(n) ==
    IF n = 0 THEN { <<>> }
    ELSE { Append(t, c) : t \in StratTextsOfLen(n - 1), c \in StratChars }

StratTexts == UNION { StratTextsOfLen(n) : n \in 0..MaxText }

\* the paragraphs of the documented paragraph-strategy scenario
ParagraphOne ==
    << "P", "a", "r", "a", "g", "r", "a", "p", "h", " ", "o", "n",
       "e", "." >>

ParagraphTwo ==
    << "P", "a", "r", "a", "g", "r", "a", "p", "h", " ", "t", "w",
       "o", " ", "i", "s", " ", "l", "o", "n", "g", "e", "r", " ",
       "a", "n", "d", " ", "s", "h", "o", "u", "l", "d", " ", "s",
       "t", "i", "l", "l", " ", "f", "i", "t", "." >>

ParagraphThree ==
    << "P", "a", "r", "a", "g", "r", "a", "p", "h", " ", "t", "h",
       "r", "e", "e", "." >>

BlankLine == <<"\n", "\n">>

ExampleText == ParagraphOne \o BlankLine \o ParagraphTwo \o BlankLine \o ParagraphThree

ExampleChunkSize == 80

Returns(cs) == [outcome |-> "returned", chunks |-> cs]

Raises == [outcome |-> "raises", chunks |-> <<>>]

\* the loop was still running after MaxIter chunks
Diverges(cs) == [outcome |-> "diverges", chunks |-> cs]

NotCalled == [outcome |-> "none", chunks |-> <<>>]

\* the "while start < len(text)" loop of FixedSizeChunker.chunk_text and of
\* RecursiveChunker._fallback_split
RECURSIVE WindowLoop(_, _, _, _, _, _)
WindowLoop(text, start, cs, size, ov, offset) ==
    IF ~(start < Len(text)) THEN Returns(cs)
    ELSE IF Len(cs) >= MaxIter THEN Diverges(cs)
    ELSE LET end  == Min(start + size, Len(text))
             c    == CreateChunk(PySlice(text, start, end), Len(cs),
                                 offset + start, offset + end)
             next == end - ov
         IN  IF next >= end THEN Returns(Append(cs, c))
             ELSE WindowLoop(text, next, Append(cs, c), size, ov, offset)

\* FixedSizeChunker.chunk_text
FixedChunkText(raw, size, ov) ==
    LET text == CleanText(raw)
    IN  IF Len(text) <= size
        THEN Returns(<<CreateChunk(text, 0, 0, Len(text))>>)
        ELSE WindowLoop(text, 0, <<>>, size, ov, 0)

\* RecursiveChunker.separators
separators ==
    << <<"\n", "\n">>, <<"\n">>, <<".", " ">>, <<"!", " ">>, <<"?", " ">>,
       <<";", " ">>, <<",", " ">>, <<" ">>, <<>> >>

StartsWith(t, i, sep) ==
    /\ i + Len(sep) - 1 <= Len(t)
    /\ SubSeq(t, i, i + Len(sep) - 1) = sep

\* "separator in text"
Contains(t, sep) == sep = <<>> \/ \E i \in 1..Len(t) : StartsWith(t, i, sep)

\* text.split(separator) for a non-empty separator: the parts from position
\* i on, cut at the leftmost occurrences that do not overlap
RECURSIVE SplitAt(_, _, _)
SplitAt(t, sep, i) ==
    LET found == { j \in i..Len(t) : StartsWith(t, j, sep) }
    IN  IF found = {} THEN <<SubSeq(t, i, Len(t))>>
        ELSE LET j == CHOOSE x \in found : \A y \in found : x <= y
             IN  <<SubSeq(t, i, j - 1)>> \o SplitAt(t, sep, j + Len(sep))

PySplit(t, sep) == SplitAt(t, sep, 1)

\* truth value of s.strip()
NonBlank(s) == Strip(s) # <<>>

\* the "for i, part in enumerate(parts)" loop of _split_by_separator;
\* st holds chunks, current_chunk and current_start
RECURSIVE SeparatorLoop(_, _, _, _, _, _)
SeparatorLoop(parts, sep, i, st, size, ov) ==
    IF i > Len(parts) THEN st
    ELSE LET part_with_sep == IF i < Len(parts) THEN parts[i] \o sep ELSE parts[i]
             cur == st.current_chunk
             saved == IF NonBlank(cur)
                      THEN Append(st.chunks,
                                  CreateChunk(cur, Len(st.chunks), st.current_start,
                                              st.current_start + Len(cur)))
                      ELSE st.chunks
             nxt == IF Len(cur) + Len(part_with_sep) <= size
                    THEN [st EXCEPT !.current_chunk = cur \o part_with_sep]
                    ELSE [chunks |-> saved,
                          current_chunk |-> part_with_sep,
                          current_start |-> st.current_start + Len(cur) - ov]
         IN  SeparatorLoop(parts, sep, i + 1, nxt, size, ov)

\* RecursiveChunker._split_by_separator; str.split raises ValueError on ""
SplitBySeparator(text, sep, start_offset, size, ov) ==
    IF sep = <<>> THEN Raises
    ELSE LET st == SeparatorLoop(PySplit(text, sep), sep, 1,
                        [chunks |-> <<>>, current_chunk |-> <<>>,
                         current_start |-> start_offset], size, ov)
             cur == st.current_chunk
         IN  Returns(IF NonBlank(cur)
                     THEN Append(st.chunks,
                                 CreateChunk(cur, Len(st.chunks), st.current_start,
                                             st.current_start + Len(cur)))
                     ELSE st.chunks)

\* RecursiveChunker._fallback_split
FallbackSplit(text, start_offset, size, ov) ==
    WindowLoop(text, 0, <<>>, size, ov, start_offset)

\* "for separator in self.separators": the loop ends at the first separator
\* found in the text whose split raises or returns chunks
TrySeparators(text, start_offset, size, ov) ==
    LET Attempt(k) == SplitBySeparator(text, separators[k], start_offset, size, ov)
        ending == { k \in 1..Len(separators) :
                      /\ Contains(text, separators[k])
                      /\ ~(Attempt(k).outcome = "returned" /\ Attempt(k).chunks = <<>>) }
    IN  IF ending = {} THEN FallbackSplit(text, start_offset, size, ov)
        ELSE Attempt(CHOOSE k \in ending : \A m \in ending : k <= m)

\* RecursiveChunker._recursive_split
RecursiveSplit(text, start_offset, size, ov) ==
    IF Len(text) <= size
    THEN Returns(<<CreateChunk(text, 0, start_offset, start_offset + Len(text))>>)
    ELSE TrySeparators(text, start_offset, size, ov)

\* RecursiveChunker.chunk_text
RecursiveChunkText(raw, size, ov) == RecursiveSplit(CleanText(raw), 0, size, ov)

\* last index of the whitespace run that starts at i
RunEnd(t, i) ==
    CHOOSE j \in i..Len(t) :
        /\ \A m \in i..j : IsSpace(t[m])
        /\ (j = Len(t) \/ ~IsSpace(t[j + 1]))

\* end of the match of \n\s*\n at i (0 when there is none): \s* is greedy
MatchEnd(t, i) ==
    IF t[i] # "\n" THEN 0
    ELSE LET ends == { k \in (i + 1)..RunEnd(t, i) : t[k] = "\n" }
         IN  IF ends = {} THEN 0 ELSE CHOOSE k \in ends : \A m \in ends : m <= k

\* re.split(r"\n\s*\n", text): the parts from position i on
RECURSIVE ReSplitAt(_, _)
ReSplitAt(t, i) ==
    LET found == { j \in i..Len(t) : MatchEnd(t, j) > 0 }
    IN  IF found = {} THEN <<SubSeq(t, i, Len(t))>>
        ELSE LET j == CHOOSE x \in found : \A y \in found : x <= y
             IN  <<SubSeq(t, i, j - 1)>> \o ReSplitAt(t, MatchEnd(t, j) + 1)

ParagraphSplit(t) == ReSplitAt(t, 1)

\* the "for paragraph in paragraphs" loop of ParagraphChunker.chunk_text
RECURSIVE ParagraphLoop(_, _, _, _)
ParagraphLoop(paragraphs, i, st, size) ==
    IF i > Len(paragraphs) THEN st
    ELSE LET paragraph == Strip(paragraphs[i])
             cur == st.current_chunk
             nxt == IF paragraph = <<>> THEN st
                    ELSE IF Len(cur) + Len(paragraph) + 2 > size /\ cur # <<>>
                    THEN [chunks |-> Append(st.chunks,
                                        CreateChunk(cur, Len(st.chunks), st.current_start,
                                                    st.current_start + Len(cur))),
                          current_chunk |-> paragraph,
                          current_start |-> st.current_start + Len(cur)]
                    ELSE [st EXCEPT !.current_chunk =
                              IF cur # <<>> THEN cur \o BlankLine \o paragraph
                              ELSE paragraph]
         IN  ParagraphLoop(paragraphs, i + 1, nxt, size)

\* ParagraphChunker.chunk_text
ParagraphChunkText(raw, size) ==
    LET text == CleanText(raw)
        st   == ParagraphLoop(ParagraphSplit(text), 1,
                    [chunks |-> <<>>, current_chunk |-> <<>>, current_start |-> 0],
                    size)
        cur  == st.current_chunk
    IN  Returns(IF NonBlank(cur)
                THEN Append(st.chunks,
                            CreateChunk(cur, Len(st.chunks), st.current_start,
                                        st.current_start + Len(cur)))
                ELSE st.chunks)

\* SemanticChunker.chunk_text
SemanticChunkText(raw, size, ov) == RecursiveChunkText(raw, size, ov)

\* "for i, chunk in enumerate(chunks): chunk['index'] = i"
Reindex(cs) == [i \in 1..Len(cs) |-> [cs[i] EXCEPT !.index = i - 1]]

\* ChunkingService.chunk_text
chunk_text(raw, strat, size, ov) ==
    LET r == CASE strat = "fixed"     -> FixedChunkText(raw, size, ov)
               [] strat = "recursive" -> RecursiveChunkText(raw, size, ov)
               [] strat = "paragraph" -> ParagraphChunkText(raw, size)
               [] OTHER               -> SemanticChunkText(raw, size, ov)
    IN  IF r.outcome = "returned" THEN Returns(Reindex(r.chunks)) ELSE r

InitStrategy ==
    /\ \/ /\ ctext \in StratTexts
          /\ chunk_size \in 1..MaxSize
       \/ /\ ctext = ExampleText
          /\ chunk_size = ExampleChunkSize
    /\ overlap \in 0..MaxSize
    /\ strategy \in Strategies
    /\ sresult = NotCalled
    /\ cpc = "idle" /\ cstart = 0 /\ cchunks = <<>>
    /\ RagIdle /\ StrIdle /\ FileIdle /\ EmbIdle /\ SrchIdle /\ EnsIdle /\ AuxIdle

ChunkTextCall ==
    /\ sresult = NotCalled
    /\ sresult' = chunk_text(ctext, strategy, chunk_size, overlap)
    /\ UNCHANGED <<strategy, baseVars, embVars, srchVars, ensVars, auxVars>>

NextStrategy == ChunkTextCall

SpecStrategy == InitStrategy /\ [][NextStrategy]_vars

----------------------------------------------------------------------------
\* Specification SpecEmbed: EmbeddingService.embed_chunks and embed_text

EmbedTexts == {"", "a", "b"}

BatchBehaviours == {"ok", "raises", "short"}

RECURSIVE TextListsOfLen(_)
TextListsOfLen(n) ==
    IF n = 0 THEN { <<>> }
    ELSE { Append(ts, t) : ts \in TextListsOfLen(n - 1), t \in EmbedTexts }

TextLists == UNION { TextListsOfLen(n) : n \in 0..MaxEmbed }

None == <<>>

\* the vector the provider computes for a text
Vector(t) == <<t>>

\* BaseEmbedder._validate_text raises ValueError("Text cannot be empty")
ValidateRaises(t) == t = ""

\* embedder.generate_embedding(text) raises
GenerateRaises(t) == ValidateRaises(t) \/ t \in efails

\* embedder.generate_embeddings(texts): the texts are validated first, then
\* the provider answers with one vector per text, an error, or too few vectors
GenerateEmbeddings(texts) ==
    IF \E i \in 1..Len(texts) : ValidateRaises(texts[i]) THEN [raised |-> TRUE, vectors |-> <<>>]
    ELSE IF ebatch = "raises" THEN [raised |-> TRUE, vectors |-> <<>>]
    ELSE LET all == [i \in 1..Len(texts) |-> Vector(texts[i])]
         IN  [raised |-> FALSE,
              vectors |-> IF ebatch = "short" THEN Front(all) ELSE all]

\* the input chunk at position i
InputChunk(i) == [text |-> etexts[i], index |-> i - 1]

\* chunk.copy() updated with the embedding fields
Enriched(chunk, embedding, success, error) ==
    [text |-> chunk.text, index |-> chunk.index,
     embedding |-> embedding, success |-> success, error |-> error]

\* EmbeddingService.embed_text
embed_text(t) ==
    IF GenerateRaises(t)
    THEN [called |-> TRUE, embedding |-> None, success |-> FALSE, error |-> "error"]
    ELSE [called |-> TRUE, embedding |-> Vector(t), success |-> TRUE, error |-> "None"]

NoCall == [called |-> FALSE, embedding |-> None, success |-> FALSE, error |-> "None"]

InitEmbed ==
    /\ etexts \in TextLists
    /\ efails \in SUBSET (EmbedTexts \ {""})
    /\ ebatch \in BatchBehaviours
    /\ epc = "call"
    /\ eresult = <<>>
    /\ esingle = [i \in 1..Len(etexts) |-> NoCall]
    /\ RagIdle /\ StrIdle /\ FileIdle /\ ChunkIdle
    /\ StratIdle /\ SrchIdle /\ EnsIdle /\ AuxIdle

\* embed_chunks up to the end of its try block: an empty list is returned at
\* once; the batch answer is zipped onto the chunks, and an exception (the
\* provider's, or the IndexError of embeddings[i]) starts the fallback
EmbedChunksCall ==
    /\ epc = "call"
    /\ IF etexts = <<>>
       THEN eresult' = <<>> /\ epc' = "returned"
       ELSE LET b == GenerateEmbeddings(etexts)
            IN  IF ~b.raised /\ Len(b.vectors) >= Len(etexts)
                THEN /\ eresult' = [i \in 1..Len(etexts) |->
                                      Enriched(InputChunk(i), b.vectors[i], TRUE, "None")]
                     /\ epc' = "returned"
                ELSE /\ eresult' = <<>>
                     /\ epc' = "individual"
    /\ UNCHANGED <<etexts, efails, ebatch, esingle, baseVars, stratVars, srchVars, ensVars, auxVars>>

\* one iteration of "for chunk in chunks" in _embed_chunks_individually; the
\* iteration that handles the last chunk is followed by the return
EmbedIndividual_Raises ==
    /\ epc = "individual"
    /\ Len(eresult) < Len(etexts)
    /\ LET i == Len(eresult) + 1
           chunk == InputChunk(i)
       IN  IF GenerateRaises(chunk.text)
           THEN eresult' = eresult /\ epc' = "raised"
           ELSE /\ eresult' = Append(eresult,
                                Enriched(chunk, Vector(chunk.text), TRUE, "None"))
                /\ epc' = IF i = Len(etexts) THEN "returned" ELSE "individual"
    /\ UNCHANGED <<etexts, efails, ebatch, esingle, baseVars, stratVars, srchVars, ensVars, auxVars>>

EmbedIndividual_BatchError ==
    /\ epc = "individual"
    /\ Len(eresult) < Len(etexts)
    /\ LET i == Len(eresult) + 1
           chunk == InputChunk(i)
       IN  /\ eresult' = Append(eresult, Enriched(chunk, None, FALSE, "batch failed"))
           /\ epc' = IF i = Len(etexts) THEN "returned" ELSE "individual"
    /\ UNCHANGED <<etexts, efails, ebatch, esingle, baseVars, stratVars, srchVars, ensVars, auxVars>>

EmbedIndividual ==
    /\ epc = "individual"
    /\ Len(eresult) < Len(etexts)
    /\ LET i == Len(eresult) + 1
           chunk == InputChunk(i)
       IN  /\ eresult' = Append(eresult,
                 IF GenerateRaises(chunk.text)
                 THEN Enriched(chunk, None, FALSE, "Individual embedding failed")
                 ELSE Enriched(chunk, Vector(chunk.text), TRUE, "None"))
           /\ epc' = IF i = Len(etexts) THEN "returned" ELSE "individual"
    /\ UNCHANGED <<etexts, efails, ebatch, esingle, baseVars, stratVars, srchVars, ensVars, auxVars>>

\* a separate embed_text call on the text at position i
EmbedTextCall(i) ==
    /\ ~esingle[i].called
    /\ esingle' = [esingle EXCEPT ![i] = embed_text(etexts[i])]
    /\ UNCHANGED <<etexts, efails, ebatch, epc, eresult, baseVars, stratVars, srchVars, ensVars, auxVars>>

NextEmbed ==
    \/ EmbedChunksCall
    \/ EmbedIndividual
    \/ \E i \in 1..Len(etexts) : EmbedTextCall(i)

SpecEmbed == InitEmbed /\ [][NextEmbed]_vars

----------------------------------------------------------------------------
\* Specification SpecSearch: RAGService.vector_search inside a query
\* (process_rag_request and process_streaming_rag_request); the embedding and
\* completion calls of the query succeed

QueryModes == {"single", "stream"}

RECURSIVE CollectionListsOfLen(_)
CollectionListsOfLen(n) ==
    IF n = 0 THEN { <<>> }
    ELSE { Append(cs, c) : cs \in CollectionListsOfLen(n - 1), c \in CollectionIds }

\* request.collection_ids
CollectionLists == UNION { CollectionListsOfLen(n) : n \in 1..MaxColls }

\* search_results of one collection, converted to RetrievedChunk
HitsOf(c) ==
    { <<>> } \cup { <<RetrievedChunk(id, c, s)>> : id \in ChunkIds, s \in Similarities }

InitSearch ==
    /\ qmode \in QueryModes
    /\ qcolls \in CollectionLists
    /\ qhits \in { h \in [CollectionIds -> UNION { HitsOf(c) : c \in CollectionIds }] :
                     \A c \in CollectionIds : h[c] \in HitsOf(c) }
    /\ qfail \in SUBSET CollectionIds
    /\ qpc = "searching" /\ qi = 0 /\ qall = <<>> /\ qresult = NoResult
    /\ chunks = <<>> /\ max_tokens = MaxBudget /\ mres = NoResult
    /\ StrIdle /\ FileIdle /\ ChunkIdle
    /\ StratIdle /\ EmbIdle /\ EnsIdle /\ AuxIdle

\* one iteration of "for collection_id in request.collection_ids": the search
\* call either raises, and the except of vector_search re-raises, or its
\* results are appended to all_chunks
SearchCollection ==
    /\ qpc = "searching"
    /\ qi < Len(qcolls)
    /\ LET c == qcolls[qi + 1]
       IN  IF c \in qfail
           THEN qall' = qall /\ qpc' = "search_raised"
           ELSE qall' = qall \o qhits[c] /\ qpc' = "searching"
    /\ qi' = qi + 1
    /\ UNCHANGED <<qmode, qcolls, qhits, qfail, qresult,
                   baseVars, stratVars, embVars, ensVars, auxVars>>

\* vector_search returned: merge_contexts, the completion, the answer
MergeAndAnswer ==
    /\ qpc = "searching"
    /\ qi = Len(qcolls)
    /\ qresult' = merge_contexts(qall, max_tokens)
    /\ qpc' = "completed"
    /\ UNCHANGED <<qmode, qcolls, qhits, qfail, qi, qall,
                   baseVars, stratVars, embVars, ensVars, auxVars>>

\* the exception leaves vector_search: process_rag_request logs and re-raises
\* it, process_streaming_rag_request yields the error event
SearchErrorPropagates ==
    /\ qpc = "search_raised"
    /\ qpc' = IF qmode = "single" THEN "raised" ELSE "error_event"
    /\ UNCHANGED <<qmode, qcolls, qhits, qfail, qi, qall, qresult,
                   baseVars, stratVars, embVars, ensVars, auxVars>>

NextSearch ==
    \/ SearchCollection
    \/ MergeAndAnswer
    \/ SearchErrorPropagates

SpecSearch == InitSearch /\ [][NextSearch]_vars

----------------------------------------------------------------------------
\* Specification SpecEnsure: concurrent VectorService.ensure_collection calls
\* against one vector store; the store answers every request

CallerIds == 1..MaxCallers

\* ensure_collection was called with collection_name = name
NewCaller(name) ==
    [pc |-> "call",          \* next step of the call
     name |-> name,          \* collection_name
     existing_names |-> {},  \* names read by get_collections
     raced |-> FALSE,        \* create_collection answered "already exists"
     result |-> "none"]      \* value returned, or "raised"

\* what the store holds before the calls
InitialStores == { <<>>, <<"A">>, <<"B">>, <<"A", "B">> }

Count(store, name) == Cardinality({ i \in 1..Len(store) : store[i] = name })

InitEnsure ==
    /\ vcollections \in InitialStores
    /\ callers \in [CallerIds -> { NewCaller(n) : n \in CollectionIds }]
    /\ RagIdle /\ StrIdle /\ FileIdle /\ ChunkIdle
    /\ StratIdle /\ EmbIdle /\ SrchIdle /\ AuxIdle

\* "if not self._initialized: await self.initialize()"
EnsureInitialize(c) ==
    /\ callers[c].pc = "call"
    /\ callers' = [callers EXCEPT ![c].pc = "check"]
    /\ UNCHANGED <<vcollections, baseVars, stratVars, embVars, srchVars, auxVars>>

\* get_collections and the membership test
EnsureCheck(c) ==
    /\ callers[c].pc = "check"
    /\ LET names == Range(vcollections)
       IN  callers' = [callers EXCEPT
               ![c].existing_names = names,
               ![c].pc = IF callers[c].name \in names THEN "returned" ELSE "create",
               ![c].result = IF callers[c].name \in names THEN "True" ELSE @]
    /\ UNCHANGED <<vcollections, baseVars, stratVars, embVars, srchVars, auxVars>>

\* create_collection: the store rejects a name it already holds with an
\* "already exists" error, which the except branch turns into success
EnsureCreate_Reraises(c) ==
    /\ callers[c].pc = "create"
    /\ IF callers[c].name \in Range(vcollections)
       THEN /\ vcollections' = vcollections
            /\ callers' = [callers EXCEPT ![c].pc = "returned", ![c].raced = TRUE,
                                          ![c].result = "raised"]
       ELSE /\ vcollections' = Append(vcollections, callers[c].name)
            /\ callers' = [callers EXCEPT ![c].pc = "returned", ![c].result = "True"]
    /\ UNCHANGED <<baseVars, stratVars, embVars, srchVars, auxVars>>

EnsureCreate(c) ==
    /\ callers[c].pc = "create"
    /\ IF callers[c].name \in Range(vcollections)
       THEN /\ vcollections' = vcollections
            /\ callers' = [callers EXCEPT ![c].pc = "returned", ![c].raced = TRUE,
                                          ![c].result = "True"]
       ELSE /\ vcollections' = Append(vcollections, callers[c].name)
            /\ callers' = [callers EXCEPT ![c].pc = "returned", ![c].result = "True"]
    /\ UNCHANGED <<baseVars, stratVars, embVars, srchVars, auxVars>>

NextEnsure ==
    \/ \E c \in CallerIds : EnsureInitialize(c)
    \/ \E c \in CallerIds : EnsureCheck(c)
    \/ \E c \in CallerIds : EnsureCreate(c)

SpecEnsure == InitEnsure /\ [][NextEnsure]_vars

----------------------------------------------------------------------------
\* Specification SpecIndex: FileVectorService.store_chunk_embeddings writes
\* points into the vector store and RAGService.vector_search reads them.

PointIds  == {1, 2}
Contents  == {"x", "y"}

\* a DocumentChunk row as store_chunk_embeddings receives it
DocumentChunk(id, index, text) ==
    [id |-> id, file_id |-> "f1", chunk_index |-> index, content |-> text]

RECURSIVE ChunkRowsOfLen(_)
ChunkRowsOfLen(n) ==
    IF n = 0 THEN { <<>> }
    ELSE UNION { { Append(rows, DocumentChunk(id, n - 1, text)) :
                     id \in { x \in PointIds :
                              \A i \in 1..Len(rows) : rows[i].id # x },
                     text \in Contents }
                 : rows \in ChunkRowsOfLen(n - 1) }

\* successful_chunks is never empty when the pipeline calls the store
ChunkRows == UNION { ChunkRowsOfLen(n) : n \in 1..MaxPoints }

\* str(chunk.id) and UUID(text)
Str(id)   == <<"str", id>>
UUID(txt) == txt[2]

\* FileVectorService.get_collection_name
get_collection_name(collection_id) == <<collection_id>>

\* the collection name vector_search derives from a collection id
SearchCollectionName(collection_id) == <<"knowledge_collection_", collection_id>>

CollectionNames ==
    { get_collection_name(c) : c \in CollectionIds }
    \cup { SearchCollectionName(c) : c \in CollectionIds }

\* the payload dict built for one chunk
Payload(chunk, collection_id) ==
    [chunk_id         |-> Str(chunk.id),
     file_id          |-> Str(chunk.file_id),
     collection_id    |-> collection_id,
     chunk_index      |-> chunk.chunk_index,
     content          |-> chunk.content,
     content_length   |-> 1,
     embedding_model  |-> "model",
     page_number      |-> 0,
     section_title    |-> "",
     chunk_metadata   |-> <<>>]

VectorPoint(chunk, collection_id) ==
    [id |-> Str(chunk.id), payload |-> Payload(chunk, collection_id)]

\* points of one collection; upsert replaces a point with the same id
PointsOf(store, name) == { p \in store.points : p.collection_name = name }

Upsert(store, name, new) ==
    [store EXCEPT !.points =
        { p \in @ : ~(p.collection_name = name
                      /\ \E n \in new : n.id = p.id) }
        \cup { [collection_name |-> name, id |-> n.id, payload |-> n.payload]
               : n \in new }]

KeyError == [raised |-> "KeyError"]

\* RetrievedChunk(chunk_id=UUID(payload["chunk_id"]), ...)
ReadKeys == {"chunk_id", "document_id", "chunk_text"}

ToRetrievedChunk(payload, collection_id) ==
    IF ~(ReadKeys \subseteq DOMAIN payload) THEN KeyError
    ELSE [chunk_id      |-> UUID(payload["chunk_id"]),
          document_id   |-> UUID(payload["document_id"]),
          collection_id |-> collection_id,
          content       |-> payload["chunk_text"]]

InitIndex ==
    /\ icoll \in CollectionIds
    /\ ichunks \in ChunkRows
    /\ ipc = "idle"
    /\ qdrant \in [collections : SUBSET CollectionNames, points : {{}}]
    /\ lookup = NoLookup
    /\ CoreIdle /\ ModeIdle /\ CliIdle /\ ChatIdle

\* store_chunk_embeddings(chunks, embeddings, collection_id): ensure the
\* collection, build one point per chunk, upsert them
StoreChunkEmbeddings ==
    /\ ipc = "idle"
    /\ LET name    == get_collection_name(icoll)
           ensured == [qdrant EXCEPT !.collections = @ \cup {name}]
           points  == { VectorPoint(ichunks[i], icoll) : i \in 1..Len(ichunks) }
       IN  \/ /\ ipc' = "ensure_raised"
              /\ qdrant' = qdrant
           \/ /\ ipc' = "upsert_raised"
              /\ qdrant' = ensured
           \/ /\ ipc' = "stored"
              /\ qdrant' = Upsert(ensured, name, points)
    /\ UNCHANGED <<icoll, ichunks, lookup, idxFrame>>

\* vector_search over one collection id: search the derived collection name
\* and convert every hit
IndexSearch ==
    /\ lookup = NoLookup
    /\ \E collection_id \in CollectionIds :
         LET name == SearchCollectionName(collection_id)
         IN  IF name \notin qdrant.collections
             THEN lookup' = [outcome |-> "raised", collection_id |-> collection_id,
                             collection_name |-> name, chunks |-> {}]
             ELSE \E hits \in SUBSET PointsOf(qdrant, name) :
                    LET converted == { ToRetrievedChunk(p.payload, collection_id)
                                       : p \in hits }
                    IN  lookup' =
                          IF KeyError \in converted
                          THEN [outcome |-> "raised", collection_id |-> collection_id,
                                collection_name |-> name, chunks |-> {}]
                          ELSE [outcome |-> "returned", collection_id |-> collection_id,
                                collection_name |-> name, chunks |-> converted]
    /\ UNCHANGED <<icoll, ichunks, ipc, qdrant, idxFrame>>

NextIndex ==
    \/ StoreChunkEmbeddings
    \/ IndexSearch

SpecIndex == InitIndex /\ [][NextIndex]_vars

----------------------------------------------------------------------------
\* Specification SpecModes: process_rag_request and
\* process_streaming_rag_request run on the same request against the same
\* index contents

\* similarity scores in tenths: below and above the 0.3 floor
Scores == {2, 5}

\* the neighbours of the query one collection holds: distinct points, best
\* score first
RECURSIVE NeighboursOfLen(_)
NeighboursOfLen(n) ==
    IF n = 0 THEN { <<>> }
    ELSE UNION { { Append(ns, [chunk_id |-> id, score |-> s]) :
                     id \in { x \in ChunkIds :
                              \A i \in 1..Len(ns) : ns[i].chunk_id # x },
                     s \in { x \in Scores :
                             ns = <<>> \/ x <= ns[Len(ns)].score } }
                 : ns \in NeighboursOfLen(n - 1) }

Neighbours == UNION { NeighboursOfLen(n) : n \in 0..MaxStored }

\* VectorSearchRequest(...): score_threshold defaults to 0.0
DefaultScoreThreshold == 0

VectorSearchRequest(collection_ids, top_k, score_threshold) ==
    [collection_ids |-> collection_ids, top_k |-> top_k,
     score_threshold |-> score_threshold]

\* the request process_rag_request builds
SingleSearchRequest(request) ==
    VectorSearchRequest(request.collection_ids, request.top_k * 2, 3)

\* the request process_streaming_rag_request builds
StreamSearchRequest(request) ==
    VectorSearchRequest(request.collection_ids, request.top_k * 2,
                        DefaultScoreThreshold)

\* qdrant_client.search(limit, score_threshold): the best `limit` neighbours
\* whose score reaches the threshold
QdrantSearch(neighbours, limit, score_threshold) ==
    LET kept == SelectSeq(neighbours, LAMBDA n : n.score >= score_threshold)
    IN  SubSeq(kept, 1, IF Len(kept) < limit THEN Len(kept) ELSE limit)

\* the search results of one collection converted to RetrievedChunk
ConvertResults(search_results, collection_id) ==
    [i \in 1..Len(search_results) |->
        RetrievedChunk(search_results[i].chunk_id, collection_id,
                       search_results[i].score)]

\* the search calls vector_search issues, in order
SearchCalls(search_request) ==
    [i \in 1..Len(search_request.collection_ids) |->
        [collection_id   |-> search_request.collection_ids[i],
         limit           |-> search_request.top_k,
         score_threshold |-> search_request.score_threshold]]

\* all_chunks of vector_search
RECURSIVE VectorSearch(_, _, _)
VectorSearch(search_request, index, n) ==
    IF n = 0 THEN <<>>
    ELSE VectorSearch(search_request, index, n - 1)
         \o ConvertResults(
                QdrantSearch(index[search_request.collection_ids[n]],
                             search_request.top_k, search_request.score_threshold),
                search_request.collection_ids[n])

\* search, fuse, attribute: the stages both modes share
Answer(search_request, index) ==
    LET found  == VectorSearch(search_request, index,
                               Len(search_request.collection_ids))
        merged == merge_contexts(found, MaxBudget)
    IN  [outcome         |-> "done",
         searches        |-> SearchCalls(search_request),
         selected_chunks |-> merged.selected_chunks,
         sources         |-> ExtractSourceAttribution(merged.selected_chunks)]

InitModes ==
    /\ mreq \in [collection_ids : CollectionLists, top_k : 1..MaxTopK]
    /\ mindex \in [CollectionIds -> Neighbours]
    /\ single = NotRun
    /\ stream = NotRun
    /\ CoreIdle /\ IdxIdle /\ CliIdle /\ ChatIdle

ProcessRagRequest ==
    /\ single = NotRun
    /\ single' = Answer(SingleSearchRequest(mreq), mindex)
    /\ UNCHANGED <<mreq, mindex, stream, modeFrame>>

ProcessStreamingRagRequest ==
    /\ stream = NotRun
    /\ stream' = Answer(StreamSearchRequest(mreq), mindex)
    /\ UNCHANGED <<mreq, mindex, single, modeFrame>>

NextModes ==
    \/ ProcessRagRequest
    \/ ProcessStreamingRagRequest

SpecModes == InitModes /\ [][NextModes]_vars

----------------------------------------------------------------------------
\* Specification SpecClient: coroutines on one event loop obtain the shared
\* vector service through get_vector_service or get_file_vector_service and
\* then use it; a coroutine runs until it awaits the connection test

UserIds == 1..MaxUsers

EntryPoints == {"get_vector_service", "get_file_vector_service"}

NewUser(via) == [pc |-> "start", via |-> via, ctx |-> "none", received |-> "none"]

\* VectorService.initialize up to "await self._test_connection()": a new
\* QdrantClient replaces self.client
StartInitialize(g) ==
    [g EXCEPT !.vs.client = g.connections + 1,
              !.connections = g.connections + 1]

\* the lazy "if not self._initialized: await self.initialize()" that opens
\* every VectorService operation
VectorOperation(g) ==
    IF g.vs.initialized
    THEN [g |-> g, pc |-> "done", ctx |-> "none"]
    ELSE [g |-> StartInitialize(g), pc |-> "testing", ctx |-> "operation"]

\* get_vector_service has returned the instance to the code that called it
ServiceReturned(g, ctx) ==
    CASE ctx = "get_vector_service" ->
            [g |-> g, pc |-> "has_instance", ctx |-> "none"]
      [] ctx = "get_file_vector_service" ->
            [g |-> [g EXCEPT !.fvs.vector_service = TRUE],
             pc |-> "has_instance", ctx |-> "none"]
      [] OTHER ->
            VectorOperation([g EXCEPT !.fvs.vector_service = TRUE])

\* get_vector_service: the instance is published before it is initialized
get_vector_service(g, ctx) ==
    IF ~g.vs.exists
    THEN [g |-> StartInitialize([g EXCEPT !.vs.exists = TRUE]),
          pc |-> "testing", ctx |-> ctx]
    ELSE ServiceReturned(g, ctx)

\* get_file_vector_service: FileVectorService() is published, then its
\* initialize awaits get_vector_service
get_file_vector_service(g) ==
    IF ~g.fvs.exists
    THEN get_vector_service([g EXCEPT !.fvs.exists = TRUE],
                            "get_file_vector_service")
    ELSE [g |-> g, pc |-> "has_instance", ctx |-> "none"]

\* is the instance handed to a caller ready for use
Ready(g, via) ==
    IF via = "get_file_vector_service"
    THEN g.fvs.vector_service /\ g.vs.initialized
    ELSE g.vs.initialized

\* the caller's state after a step that ended as r
Resume(u, r) ==
    [u EXCEPT !.pc = r.pc, !.ctx = r.ctx,
              !.received = IF r.pc = "has_instance" /\ u.received = "none"
                           THEN IF Ready(r.g, u.via) THEN "initialized"
                                ELSE "uninitialized"
                           ELSE @]

InitClient ==
    /\ vservice = NoService
    /\ vusers \in [UserIds -> { NewUser(via) : via \in EntryPoints }]
    /\ CoreIdle /\ IdxIdle /\ ModeIdle /\ ChatIdle

\* a coroutine calls its entry point
GetService(t) ==
    /\ vusers[t].pc = "start"
    /\ LET r == IF vusers[t].via = "get_file_vector_service"
                THEN get_file_vector_service(vservice)
                ELSE get_vector_service(vservice, "get_vector_service")
       IN  /\ vservice' = r.g
           /\ vusers' = [vusers EXCEPT ![t] = Resume(@, r)]
    /\ UNCHANGED cliFrame

\* _test_connection answers: initialize sets _initialized and the awaiting
\* code goes on, or the ConnectionError propagates to the caller
TestConnection(t) ==
    /\ vusers[t].pc = "testing"
    /\ \/ LET g == [vservice EXCEPT !.vs.initialized = TRUE]
              r == IF vusers[t].ctx = "operation"
                   THEN [g |-> g, pc |-> "done", ctx |-> "none"]
                   ELSE ServiceReturned(g, vusers[t].ctx)
          IN  /\ vservice' = r.g
              /\ vusers' = [vusers EXCEPT ![t] = Resume(@, r)]
       \/ /\ vusers' = [vusers EXCEPT ![t].pc = "raised", ![t].ctx = "none"]
          /\ UNCHANGED vservice
    /\ UNCHANGED cliFrame

\* the caller uses the instance it received: an operation of
\* FileVectorService ("if not self.vector_service: await self.initialize()")
\* or of VectorService
UseService(t) ==
    /\ vusers[t].pc = "has_instance"
    /\ LET r == IF vusers[t].via = "get_file_vector_service"
                THEN IF ~vservice.fvs.vector_service
                     THEN get_vector_service(vservice, "file_operation")
                     ELSE VectorOperation(vservice)
                ELSE VectorOperation(vservice)
       IN  /\ vservice' = r.g
           /\ vusers' = [vusers EXCEPT ![t] = Resume(@, r)]
    /\ UNCHANGED cliFrame

NextClient ==
    \/ \E t \in UserIds : GetService(t)
    \/ \E t \in UserIds : TestConnection(t)
    \/ \E t \in UserIds : UseService(t)

SpecClient == InitClient /\ [][NextClient]_vars

----------------------------------------------------------------------------
\* Specification SpecChat: generate_stream of the /stream endpoint pulls the
\* events of process_streaming_rag_request, sends each one to the client and
\* stores the assistant message after the stream

InitChat ==
    /\ chunks = <<>>
    /\ max_tokens \in 0..MaxBudget
    /\ mres = NoResult
    /\ spc = "idle" /\ events = <<>> /\ ncontent = 0 /\ srcIdx = 0
    /\ hpc = "created" /\ sent = <<>> /\ response_content = 0
    /\ assistant = NoMessage
    /\ FileIdle /\ ChunkIdle
    /\ StratIdle /\ EmbIdle /\ SrchIdle /\ EnsIdle
    /\ IdxIdle /\ ModeIdle /\ CliIdle

\* first resumption of generate_stream: the session event
SendSession ==
    /\ hpc = "created"
    /\ sent' = Append(sent, "session")
    /\ hpc' = "opening"
    /\ UNCHANGED <<ragVars, strVars, response_content, assistant, chatFrame>>

\* RAGRequest(...) is built and the orchestrator's generator is created; a
\* request that does not validate raises into the except of generate_stream
OpenStream ==
    /\ hpc = "opening"
    /\ \/ /\ hpc' = "relaying"
          /\ spc' = "created"
          /\ sent' = sent
       \/ /\ hpc' = "closed"
          /\ spc' = spc
          /\ sent' = Append(sent, "error")
    /\ UNCHANGED <<ragVars, events, ncontent, srcIdx, response_content,
                   assistant, chatFrame>>

\* events of the orchestrator already sent to the client
Relayed == Len(sent) - 1

\* "async for chunk in ...": the orchestrator runs to its next yield, or
\* returns, when generate_stream asks for the next event
PullNext ==
    /\ hpc = "relaying"
    /\ Relayed = Len(events)
    /\ NextStream

\* the body of the loop: send the event, collect the content
RelayEvent ==
    /\ hpc = "relaying"
    /\ Relayed < Len(events)
    /\ LET chunk == events[Relayed + 1]
       IN  /\ sent' = Append(sent, chunk.type)
           /\ response_content' = IF chunk.type = "content"
                                  THEN response_content + 1
                                  ELSE response_content
    /\ UNCHANGED <<ragVars, strVars, hpc, assistant, chatFrame>>

\* the type of the last event the orchestrator yielded
StreamEnd == IF events = <<>> THEN "none" ELSE events[Len(events)].type

\* after the loop: "if response_content:" create_message stores the
\* assistant message, or raises into the except of generate_stream, which
\* sends an error event
StoreAssistant ==
    /\ hpc = "relaying"
    /\ spc = "end"
    /\ Relayed = Len(events)
    /\ hpc' = "closed"
    /\ IF response_content > 0
       THEN \/ /\ assistant' = [stored |-> TRUE, content |-> response_content,
                                stream_end |-> StreamEnd]
               /\ sent' = sent
            \/ /\ assistant' = assistant
               /\ sent' = Append(sent, "error")
       ELSE assistant' = assistant /\ sent' = sent
    /\ UNCHANGED <<ragVars, strVars, response_content, chatFrame>>

NextChat ==
    \/ SendSession
    \/ OpenStream
    \/ PullNext
    \/ RelayEvent
    \/ StoreAssistant

SpecChat == InitChat /\ [][NextChat]_vars

----------------------------------------------------------------------------
\* Properties of merge_contexts (checked under SpecMerge)

Merged == mres # NoResult

RECURSIVE SumTokens(_)
SumTokens(sel) ==
    IF sel = <<>> THEN 0
    ELSE SumTokens(Front(sel)) + (sel[Len(sel)].content_len \div 4)

\* C2: for every list of retrieved chunks and every budget max_tokens >= 0,
\* merge_contexts returns total_tokens <= max_tokens, total_tokens being the
\* sum of floor(len(content)/4) over selected_chunks.
C2_TokenBudgetRespected ==
    Merged => /\ mres.total_tokens <= max_tokens
              /\ mres.total_tokens = SumTokens(mres.selected_chunks)

\* the budget is reached exactly and a ranked chunk had to be left out
C2_Witness ==
    /\ Merged
    /\ Len(mres.selected_chunks) >= 2
    /\ Len(mres.selected_chunks) < Len(mres.ranking)
    /\ mres.total_tokens = max_tokens

\* rank of input chunk i inside its collection: 1 + the number of chunks of
\* the same collection that have a higher similarity, or the same similarity
\* and an earlier place in the result list
RankInCollection(cs, i) ==
    1 + Cardinality({ j \in 1..Len(cs) :
            /\ j # i
            /\ cs[j].collection_id = cs[i].collection_id
            /\ \/ cs[j].similarity_score > cs[i].similarity_score
               \/ (cs[j].similarity_score = cs[i].similarity_score /\ j < i) })

RECURSIVE ExpectedScore(_, _, _)
ExpectedScore(cs, id, n) ==
    IF n = 0 THEN 0
    ELSE ExpectedScore(cs, id, n - 1)
         + (IF cs[n].chunk_id = id
            THEN RRFScale \div (60 + RankInCollection(cs, n)) ELSE 0)

IdsOf(cs) == { cs[i].chunk_id : i \in 1..Len(cs) }

\* the ranks chunk id holds, as a set of <<collection, rank>>
RanksOf(cs, id) ==
    { <<cs[i].collection_id, RankInCollection(cs, i)>> :
        i \in { j \in 1..Len(cs) : cs[j].chunk_id = id } }

FirstAndThird(cs, id) ==
    \E a, b \in CollectionIds :
        a # b /\ RanksOf(cs, id) = { <<a, 1>>, <<b, 3>> }

FirstInOneOnly(cs, id) ==
    \E a \in CollectionIds : RanksOf(cs, id) = { <<a, 1>> }

FusedScore(id) ==
    LET i == CHOOSE j \in 1..Len(mres.ranking) : mres.ranking[j].key = id
    IN  mres.ranking[i].k

\* C6: the fused score of a chunk id is the sum over the collections holding
\* it of 1/(k_rrf + rank), rank counted from 1 by descending similarity in
\* that collection; an id found in several collections is one candidate; a
\* chunk ranked 1st in A and 3rd in B (1/61 + 1/63) scores strictly higher
\* than a chunk ranked 1st in one collection only (1/61).
C6_FusedScoreIsRankSum ==
    Merged =>
      /\ Len(mres.ranking) = Cardinality(IdsOf(chunks))
      /\ \A id \in IdsOf(chunks) :
            /\ Cardinality({ j \in 1..Len(mres.ranking) : mres.ranking[j].key = id }) = 1
            /\ FusedScore(id) = ExpectedScore(chunks, id, Len(chunks))
      /\ \A x, y \in IdsOf(chunks) :
            (FirstAndThird(chunks, x) /\ FirstInOneOnly(chunks, y)) =>
                /\ FusedScore(x) = (RRFScale \div 61) + (RRFScale \div 63)
                /\ FusedScore(y) = RRFScale \div 61
                /\ FusedScore(x) > FusedScore(y)

\* the scenario of the claim: X is 1st in one collection and 3rd in the other,
\* Y is 1st in one collection only
C6_Witness ==
    /\ Merged
    /\ \E x, y \in IdsOf(chunks) :
          FirstAndThird(chunks, x) /\ FirstInOneOnly(chunks, y)

RECURSIVE PrefixTokens(_, _)
PrefixTokens(ranked, m) ==
    IF m = 0 THEN 0
    ELSE PrefixTokens(ranked, m - 1) + (ranked[m].chunk.content_len \div 4)

\* C7: selected_chunks is exactly the longest prefix of the fused ranking
\* (descending fused score) whose running token estimate stays within the
\* budget: selection stops at the first chunk that would exceed it, no later
\* chunk is admitted, and every selected chunk is included whole.
C7_SelectedIsLongestPrefix ==
    Merged =>
      LET n == Len(mres.selected_chunks)
          r == mres.ranking
      IN  /\ \A i, j \in 1..Len(r) : (i < j) => r[i].k >= r[j].k
          /\ n <= Len(r)
          /\ \A i \in 1..n : mres.selected_chunks[i] = r[i].chunk
          /\ PrefixTokens(r, n) <= max_tokens
          /\ (n < Len(r)) => PrefixTokens(r, n + 1) > max_tokens

\* selection stopped although a later, smaller chunk would still have fitted
C7_Witness ==
    /\ Merged
    /\ LET n == Len(mres.selected_chunks)
           r == mres.ranking
       IN  /\ n >= 1
           /\ \E j \in (n + 2)..Len(r) :
                 PrefixTokens(r, n) + (r[j].chunk.content_len \div 4) <= max_tokens

----------------------------------------------------------------------------
\* Properties of the streaming orchestrator (checked under SpecStream)

IsTerminal(e) == e.type \in {"error", "done"}

TerminalAt == { i \in 1..Len(events) : IsTerminal(events[i]) }

TypesAt(t) == { i \in 1..Len(events) : events[i].type = t }

Exhausted == spc = "end"

\* C1: a streamed query consumed to exhaustion emits exactly one terminal
\* event, error or done and never both, and no event follows it, whichever
\* stage fails (embedding, search, fusion, generation after some content).
C1_OneTerminalEvent ==
    /\ Cardinality(TerminalAt) <= 1
    /\ \A i \in TerminalAt : i = Len(events)
    /\ Exhausted => Cardinality(TerminalAt) = 1

\* generation failed after content events had been sent
C1_Witness ==
    /\ Exhausted
    /\ events[Len(events)].type = "error"
    /\ TypesAt("content") # {}

Succeeded == Exhausted /\ events[Len(events)].type = "done"

IsStatus(e, s) == e.type = "status" /\ e.data = s

\* C8: in a successful streamed query the events are, in order: the statuses
\* for embedding, search and merging; one source per selected chunk; the
\* generating_response status; zero or more content events; exactly one
\* metadata event; done.
C8_SuccessfulEventOrder ==
    Succeeded =>
      LET n == Len(mres.selected_chunks)
          k == Cardinality(TypesAt("content"))
      IN  /\ Len(events) = n + k + 6
          /\ IsStatus(events[1], "generating_embedding")
          /\ IsStatus(events[2], "searching_vectors")
          /\ IsStatus(events[3], "merging_context")
          /\ \A i \in 1..n : /\ events[3 + i].type = "source"
                             /\ events[3 + i].data.chunk_id = mres.selected_chunks[i].chunk_id
          /\ IsStatus(events[n + 4], "generating_response")
          /\ \A j \in 1..k : events[n + 4 + j].type = "content"
          /\ events[n + k + 5].type = "metadata"
          /\ events[n + k + 6].type = "done"
          /\ \A i \in TypesAt("source"), j \in TypesAt("content") : i < j
          /\ \A i \in TypesAt("content"), j \in TypesAt("metadata") : i < j

\* a successful stream with several sources and several content increments
C8_Witness ==
    /\ Succeeded
    /\ Cardinality(TypesAt("source")) >= 2
    /\ Cardinality(TypesAt("content")) >= 2

----------------------------------------------------------------------------
\* Properties of the fixed-size chunker (checked under SpecChunk)

Returned == cpc = "done"

\* C4: fixed-size chunking with overlap >= chunk_size terminates for every
\* text, texts longer than chunk_size included, with at most len(text)
\* chunks, because every iteration advances the window start by at least one
\* character.
C4_ProgressWithLargeOverlap ==
    (overlap >= chunk_size /\ Len(CleanedText) >= 1) =>
        /\ Len(cchunks) <= Len(CleanedText)
        /\ \A i \in 1..(Len(cchunks) - 1) :
              cchunks[i + 1].start_position > cchunks[i].start_position

\* C5: fixed-size chunking with 0 <= overlap < chunk_size terminates for every
\* text longer than chunk_size; successive chunks start exactly
\* chunk_size - overlap characters apart and the last chunk ends at the end of
\* the normalized text.
C5_WindowAdvance ==
    (overlap < chunk_size /\ Len(CleanedText) > chunk_size) =>
        /\ Len(cchunks) <= Len(CleanedText)
        /\ \A i \in 1..(Len(cchunks) - 1) :
              cchunks[i + 1].start_position - cchunks[i].start_position
                  = chunk_size - overlap
        /\ Returned => cchunks[Len(cchunks)].end_position = Len(CleanedText)

----------------------------------------------------------------------------
\* Properties of the ingestion pipeline (checked under SpecFiles)

StatusChanges == status # "none" /\ status' # status

SpecTransitions ==
    { <<"uploaded", "processing">>,
      <<"processing", "processed">>,
      <<"processing", "failed">> }

\* C3 (as stated): over any sequence of uploads, manual process requests and
\* pipeline runs, a file's persisted status changes only along
\* uploaded -> processing, processing -> processed or processing -> failed.
C3_OnlySpecTransitions ==
    [][StatusChanges => <<status, status'>> \in SpecTransitions]_vars

\* C3 (amended): the status leaves uploaded only to processing and never
\* returns to uploaded; besides the three transitions above the code also
\* performs failed -> processing (manual re-run of a failed file) and, when
\* two runs of the file overlap or a scheduled run starts late,
\* processed -> processing, processed -> failed and failed -> processed.
C3_CodeTransitions ==
    [][StatusChanges =>
          <<status, status'>> \in SpecTransitions \cup
              { <<"failed", "processing">>, <<"processed", "processing">>,
                <<"processed", "failed">>, <<"failed", "processed">> }]_vars

\* a second run started on the file after the first run had ended failed
C3_Witness ==
    /\ Len(runs) = 2
    /\ runs[1].pc = "done" /\ runs[1].final = "failed"
    /\ runs[2].pc = "extract"
    /\ status = "processing"

RecordsKept ==
    /\ Len(chunk_records') = Len(chunk_records)
    /\ \A i \in 1..Len(chunk_records) :
          /\ chunk_records'[i].id = chunk_records[i].id
          /\ chunk_records'[i].chunk_index = chunk_records[i].chunk_index
          /\ chunk_records'[i].embedded = chunk_records[i].embedded

\* C9: once chunking and embedding have completed in a run, the run ends with
\* status processed whether the vector-store step succeeded, raised or was
\* skipped; a vector-store failure never sets the file to failed and leaves
\* the persisted chunk records in place.
C9_VectorFailureNotFatal ==
    [][\A r \in RunIds :
          /\ (runs[r].pc = "embed" /\ runs'[r].pc # "embed") =>
                runs'[r].pc \in {"vector", "finish"}
          /\ (runs[r].pc = "vector" /\ runs'[r].pc # "vector") =>
                /\ runs'[r].pc = "finish"
                /\ status' = status
                /\ RecordsKept
          /\ (runs[r].pc = "finish" /\ runs'[r].pc # "finish") =>
                /\ runs'[r].pc = "done"
                /\ runs'[r].final = "processed"
                /\ status' = "processed"
                /\ RecordsKept]_vars

\* a run whose upsert failed has ended and the file is processed
C9_Witness ==
    \E r \in RunIds :
        /\ runs[r].pc = "done"
        /\ runs[r].vector = "upsert_failed"
        /\ runs[r].nchunks > 0
        /\ status = "processed"
        /\ \E i \in 1..Len(chunk_records) : chunk_records[i].run = r

\* what holds of every run whose extraction failed
FailedExtractionStops ==
    \A r \in RunIds :
        runs[r].extraction = "failed" =>
            /\ runs[r].pc = "done"
            /\ runs[r].final = "failed"
            /\ runs[r].nchunks = 0
            /\ runs[r].embed_calls = 0
            /\ runs[r].upserts = 0
            /\ \A i \in 1..Len(chunk_records) : chunk_records[i].run # r

\* C10: when text extraction reports failure the run sets the file to failed
\* with a non-empty error message and stops: it creates no chunk records,
\* makes no embedding call and issues no upsert.
C10_ExtractionFailureStops ==
    [][/\ \A r \in RunIds :
             (runs[r].pc = "extract" /\ runs'[r].extraction = "failed") =>
                 /\ status' = "failed"
                 /\ Len(error_message') > 0
                 /\ error_message'[1] = "Text extraction failed"
       /\ FailedExtractionStops']_vars

\* extraction failed for want of an extractor and the file is failed
C10_Witness ==
    /\ status = "failed"
    /\ error_message = <<"Text extraction failed", "no_extractor">>
    /\ \E r \in RunIds : runs[r].extraction = "failed" /\ runs[r].pc = "done"

----------------------------------------------------------------------------
\* Properties of the chunking service (checked under SpecStrategy)

Called == sresult # NotCalled

ChunkReturned == Called /\ sresult.outcome = "returned"

\* the spans of the chunks that do not overlap the preceding chunk, in index
\* order, taken from the normalized text
RECURSIVE NonOverlappingSpans(_, _, _)
NonOverlappingSpans(text, cs, n) ==
    IF n = 0 THEN <<>>
    ELSE NonOverlappingSpans(text, cs, n - 1)
         \o PySlice(text,
                    IF n = 1 THEN cs[1].start_position
                    ELSE Max(cs[n].start_position, cs[n - 1].end_position),
                    cs[n].end_position)

\* C14: for every text and for the fixed-size and paragraph strategies with
\* overlap < chunk_size, the returned chunks cover the whole normalized text:
\* the parts of the chunks that do not overlap their predecessor, concatenated
\* in index order, give back the normalized text with no character missing.
C14_ChunksCoverText ==
    (Called /\ strategy \in {"fixed", "paragraph"} /\ overlap < chunk_size) =>
        /\ sresult.outcome = "returned"
        /\ NonOverlappingSpans(CleanedText, sresult.chunks, Len(sresult.chunks))
               = CleanedText

\* C15: for every strategy, every text and every chunk_size > 0, each returned
\* chunk's text is at most chunk_size characters long.
C15_ChunkSizeBound ==
    ChunkReturned =>
        \A i \in 1..Len(sresult.chunks) : Len(sresult.chunks[i].text) <= chunk_size

NoSeparatorInText ==
    \A k \in 1..Len(separators) :
        separators[k] # <<>> => ~Contains(CleanedText, separators[k])

\* C16: recursive and semantic chunking of a text longer than chunk_size that
\* contains none of the non-empty separators falls back to fixed-size
\* splitting and returns chunks; it neither raises nor loops.
C16_RecursiveFallsBack ==
    (Called /\ strategy \in {"recursive", "semantic"}
            /\ Len(CleanedText) > chunk_size /\ NoSeparatorInText) =>
        /\ sresult.outcome = "returned"
        /\ sresult.chunks # <<>>

WhitespaceOnly(t) == \A i \in 1..Len(t) : IsSpace(t[i])

\* C17: for every strategy, chunking an empty or whitespace-only text returns
\* an empty list of chunks, not a list holding one empty chunk.
C17_EmptyTextNoChunks ==
    (Called /\ WhitespaceOnly(ctext)) =>
        /\ sresult.outcome = "returned"
        /\ sresult.chunks = <<>>

\* the raw text is two paragraphs around one blank line, too long to share a
\* chunk
TwoParagraphsTooLong ==
    \E i \in 2..(Len(ctext) - 2) :
        LET p == Strip(SubSeq(ctext, 1, i - 1))
            q == Strip(SubSeq(ctext, i + 2, Len(ctext)))
        IN  /\ ctext[i] = "\n" /\ ctext[i + 1] = "\n"
            /\ p # <<>> /\ q # <<>>
            /\ Len(p) + Len(q) + 2 > chunk_size

\* C18: the paragraph strategy splits at the blank lines of the input and
\* closes the current chunk when adding the next paragraph would exceed
\* chunk_size; for the three-paragraph example with chunk_size = 80 it returns
\* exactly 2 chunks, paragraphs one and two in the first, paragraph three in
\* the second.
C18_ParagraphExample ==
    (Called /\ strategy = "paragraph") =>
        /\ sresult.outcome = "returned"
        /\ TwoParagraphsTooLong => Len(sresult.chunks) >= 2
        /\ (ctext = ExampleText /\ chunk_size = ExampleChunkSize) =>
              /\ Len(sresult.chunks) = 2
              /\ sresult.chunks[1].text = ParagraphOne \o BlankLine \o ParagraphTwo
              /\ sresult.chunks[2].text = ParagraphThree

----------------------------------------------------------------------------
\* Properties of the embedding service (checked under SpecEmbed)

EmbedReturned == epc = "returned"

\* embed_chunks went through _embed_chunks_individually
BatchFailed ==
    /\ etexts # <<>>
    /\ LET b == GenerateEmbeddings(etexts)
       IN  b.raised \/ Len(b.vectors) < Len(etexts)

\* C11: for every list of chunks and every provider behaviour (batch succeeds,
\* batch raises, batch returns too few vectors, any individual calls raising)
\* embed_chunks returns a list as long as its input whose entry i is input
\* chunk i with its own success flag and error, and it never raises.
C11_ParallelResult ==
    /\ epc # "raised"
    /\ Len(eresult) <= Len(etexts)
    /\ EmbedReturned =>
          /\ Len(eresult) = Len(etexts)
          /\ \A i \in 1..Len(etexts) :
                /\ eresult[i].text = etexts[i]
                /\ eresult[i].index = i - 1
                /\ eresult[i].success \in BOOLEAN
                /\ eresult[i].success =>
                      (eresult[i].embedding = Vector(etexts[i]) /\ eresult[i].error = "None")
                /\ ~eresult[i].success =>
                      (eresult[i].embedding = None /\ eresult[i].error # "None")

\* the batch answer was one vector short and the fallback produced both a
\* success and a failure
C11_Witness ==
    /\ EmbedReturned
    /\ ebatch = "short"
    /\ Len(etexts) = MaxEmbed
    /\ \E i, j \in 1..Len(eresult) : eresult[i].success /\ ~eresult[j].success

\* C12: when the batch call fails, position i of the result of embed_chunks
\* has the same success flag and the same vector (or none) as a separate
\* embed_text call on text i with the same provider.
C12_FallbackEqualsSingle ==
    (EmbedReturned /\ BatchFailed) =>
        \A i \in 1..Len(etexts) :
            esingle[i].called =>
                /\ eresult[i].success = esingle[i].success
                /\ eresult[i].embedding = esingle[i].embedding

\* three texts, the batch call raised, every text was also embedded on its
\* own, and the provider fails for some texts only
C12_Witness ==
    /\ EmbedReturned
    /\ ebatch = "raises"
    /\ Len(etexts) = 3
    /\ \A i \in 1..Len(etexts) : esingle[i].called
    /\ \E i, j \in 1..Len(etexts) : esingle[i].success /\ ~esingle[j].success

----------------------------------------------------------------------------
\* Properties of the vector search of a query (checked under SpecSearch)

QueryEnded == qpc \in {"completed", "raised", "error_event"}

SomeSearchFails == \E i \in 1..Len(qcolls) : qcolls[i] \in qfail

\* the chunks the collections whose search did not fail return, in request
\* order
RECURSIVE RemainingChunks(_)
RemainingChunks(n) ==
    IF n = 0 THEN <<>>
    ELSE RemainingChunks(n - 1)
         \o (IF qcolls[n] \in qfail THEN <<>> ELSE qhits[qcolls[n]])

\* C13: when a query names several collection ids and the search call for
\* one of them errors, that collection contributes no chunks and the query,
\* single-shot or streaming, still completes, fusing the chunks returned by
\* the remaining collections.
C13_SearchFailureTolerated ==
    (QueryEnded /\ Len(qcolls) >= 2 /\ SomeSearchFails) =>
        /\ qpc = "completed"
        /\ qresult = merge_contexts(RemainingChunks(Len(qcolls)), max_tokens)

----------------------------------------------------------------------------
\* Properties of merged_context and the sources (checked under SpecStream)

\* the block labelled [Source i] of a merged context, blocks being separated
\* by blank lines
BlockAt(mc, i) == SubSeq(mc, 5 * i - 4, 5 * i - 1)

MetadataEvents == { i \in 1..Len(events) : events[i].type = "metadata" }

\* the chunk ids carried by the source events, in order of emission
SourceEventIds ==
    LET src == SelectSeq(events, LAMBDA e : e.type = "source")
    IN  [i \in 1..Len(src) |-> src[i].data.chunk_id]

\* C19: for every query with n selected chunks, merged_context is exactly the
\* n blocks "[Source i] <content>", i = 1..n, joined by blank lines; the
\* source attributions, the source events and the metadata counts chunks_used
\* and sources_count number exactly n; the i-th attribution refers to the
\* chunk of the block labelled [Source i].
C19_SourcesMatchContext ==
    Merged =>
      LET n  == Len(mres.selected_chunks)
          mc == mres.merged_context
      IN  /\ Len(mc) = IF n = 0 THEN 0 ELSE 5 * n - 1
          /\ \A i \in 1..n :
                BlockAt(mc, i) = <<"[Source", i, "]", mres.selected_chunks[i].chunk_id>>
          /\ \A i \in 1..(n - 1) : mc[5 * i] = "\n\n"
          /\ Len(Sources) = n
          /\ \A i \in 1..n : Sources[i].chunk_id = BlockAt(mc, i)[4]
          /\ Len(SourceEventIds) <= n
          /\ \A i \in 1..Len(SourceEventIds) : SourceEventIds[i] = BlockAt(mc, i)[4]
          /\ (spc \in {"generating", "metadata", "done"}) => Len(SourceEventIds) = n
          /\ \A j \in MetadataEvents :
                /\ events[j].data.chunks_used = n
                /\ events[j].data.sources_count = n
                /\ Len(SourceEventIds) = n

\* a completed stream with two selected chunks
C19_Witness ==
    /\ Succeeded
    /\ Len(mres.selected_chunks) = 2
    /\ MetadataEvents # {}
    /\ mres.selected_chunks[1].chunk_id # mres.selected_chunks[2].chunk_id

----------------------------------------------------------------------------
\* Properties of ensure_collection (checked under SpecEnsure)

\* C20: when several callers call ensure_collection concurrently for the same
\* absent collection name, every call returns success and exactly one
\* collection with that name exists afterwards; ensure_collection on an
\* existing collection changes nothing.
C20_EnsureCollectionRaceSafe ==
    [][\A c \in CallerIds :
          /\ callers'[c].pc = "returned" =>
                /\ callers'[c].result = "True"
                /\ Count(vcollections', callers'[c].name) = 1
          /\ (callers'[c] # callers[c] /\ callers[c].name \in Range(vcollections)) =>
                vcollections' = vcollections]_vars

\* every caller asked for the same absent name, all have returned, and one of
\* them lost the race between its check and its create
C20_Witness ==
    /\ \A c \in CallerIds : callers[c].pc = "returned" /\ callers[c].name = "A"
    /\ \E c \in CallerIds : callers[c].raced /\ "A" \notin callers[c].existing_names
    /\ \E c \in CallerIds : ~callers[c].raced /\ "A" \notin callers[c].existing_names
    /\ Count(vcollections, "A") = 1

----------------------------------------------------------------------------
\* Properties of the vector store (checked under SpecIndex)

RequiredPayloadKeys == {"collection_id", "document_id", "chunk_index", "content"}

\* C21: every point the ingestion pipeline upserts into the vector index
\* carries in its payload at least the keys collection_id, document_id,
\* chunk_index and content.
C21_PayloadSelfDescribing ==
    \A p \in qdrant.points : RequiredPayloadKeys \subseteq DOMAIN p.payload

StoredThenSearched ==
    /\ ipc = "stored"
    /\ lookup # NoLookup
    /\ lookup.collection_id = icoll

\* C30: once the ingestion pipeline has upserted chunks for collection C, a
\* query over collection C searches the collection name ingestion wrote to,
\* converts every stored point without a missing payload key, and does not
\* fail.
C30_StoredChunkRetrievable ==
    StoredThenSearched =>
        /\ lookup.collection_name = get_collection_name(icoll)
        /\ lookup.outcome = "returned"
        /\ \A p \in PointsOf(qdrant, get_collection_name(icoll)) :
               ToRetrievedChunk(p.payload, icoll) # KeyError

----------------------------------------------------------------------------
\* Properties of the two query modes (checked under SpecModes)

BothModesRan == single # NotRun /\ stream # NotRun

FloorAndOverFetch(calls) ==
    \A i \in 1..Len(calls) :
        calls[i].limit = 2 * mreq.top_k /\ calls[i].score_threshold = 3

\* C22: for the same request and the same index contents, single-shot mode
\* and streaming mode issue the same per-collection searches (2 * top_k
\* neighbours with the 0.3 score floor), select the same chunks in the same
\* order and report the same sources.
C22_ModesAgree ==
    BothModesRan =>
        /\ single.searches = stream.searches
        /\ FloorAndOverFetch(single.searches)
        /\ FloorAndOverFetch(stream.searches)
        /\ single.selected_chunks = stream.selected_chunks
        /\ single.sources = stream.sources

----------------------------------------------------------------------------
\* Tie-breaking of merge_contexts (checked under SpecMerge)

\* position in the input of the first chunk of the collection of chunks[i]
CollectionFirstSeen(i) ==
    CHOOSE j \in 1..Len(chunks) :
        /\ chunks[j].collection_id = chunks[i].collection_id
        /\ \A h \in 1..(j - 1) : chunks[h].collection_id # chunks[i].collection_id

\* chunks[i] is met before chunks[j] when the collections are walked in the
\* order they first appear and each one by descending similarity, input order
\* on ties
MetBefore(i, j) ==
    \/ CollectionFirstSeen(i) < CollectionFirstSeen(j)
    \/ /\ chunks[i].collection_id = chunks[j].collection_id
       /\ \/ chunks[i].similarity_score > chunks[j].similarity_score
          \/ /\ chunks[i].similarity_score = chunks[j].similarity_score
             /\ i < j

\* the input position at which the candidate with this chunk id is discovered
Discovery(id) ==
    CHOOSE i \in 1..Len(chunks) :
        /\ chunks[i].chunk_id = id
        /\ \A j \in 1..Len(chunks) :
               (j # i /\ chunks[j].chunk_id = id) => MetBefore(i, j)

RankedInOrder(ranking) ==
    \A p, q \in 1..Len(ranking) :
        p < q =>
            \/ ranking[p].k > ranking[q].k
            \/ /\ ranking[p].k = ranking[q].k
               /\ MetBefore(Discovery(ranking[p].key), Discovery(ranking[q].key))

\* C23: merge_contexts orders the candidates by fused score descending and
\* keeps candidates with equal fused scores in discovery order (collections
\* in the order they first appear in the input, within a collection by
\* descending similarity, input order on ties); the selected chunks follow
\* that order, and the result is the one the input determines, so a repeated
\* call returns the same selected_chunks and merged_context.
C23_TiesInDiscoveryOrder ==
    Merged =>
        /\ { mres.ranking[p].key : p \in 1..Len(mres.ranking) }
               = { chunks[i].chunk_id : i \in 1..Len(chunks) }
        /\ RankedInOrder(mres.ranking)
        /\ \A p \in 1..Len(mres.selected_chunks) :
               mres.selected_chunks[p] = chunks[Discovery(mres.ranking[p].key)]
        /\ mres.selected_chunks = merge_contexts(chunks, max_tokens).selected_chunks
        /\ mres.merged_context = merge_contexts(chunks, max_tokens).merged_context

\* two candidates with equal fused scores, found in different collections,
\* the second collection's chunk listed first inside its own collection only
\* after sorting, are both selected
C23_Witness ==
    /\ Merged
    /\ Len(mres.selected_chunks) >= 2
    /\ \E p \in 1..(Len(mres.ranking) - 1) :
          /\ p + 1 <= Len(mres.selected_chunks)
          /\ mres.ranking[p].k = mres.ranking[p + 1].k
          /\ mres.ranking[p].chunk.collection_id
                 # mres.ranking[p + 1].chunk.collection_id
    /\ \E i, j \in 1..Len(chunks) :
          /\ i < j
          /\ chunks[i].collection_id = chunks[j].collection_id
          /\ chunks[i].similarity_score < chunks[j].similarity_score

----------------------------------------------------------------------------
\* Properties of the shared vector service (checked under SpecClient)

\* C24: under any interleaving of concurrent first uses of the shared vector
\* service, exactly one underlying connection is created, it is the one the
\* service keeps, and no caller receives an instance that is not yet
\* initialized.
C24_OneConnection ==
    /\ vservice.connections <= 1
    /\ vservice.vs.initialized => vservice.vs.client = 1
    /\ \A t \in DOMAIN vusers : vusers[t].received # "uninitialized"

----------------------------------------------------------------------------
\* Chunk records and runs of one file (checked under SpecFiles)

RecordsWithIndex(k) ==
    { i \in 1..Len(chunk_records) : chunk_records[i].chunk_index = k }

\* C25: after any sequence of ingestion runs for one file, the chunk records
\* persisted for the file have chunk_index values exactly 0..n-1, each value
\* occurring once.
C25_ChunkIndexContiguous ==
    \A i \in 1..Len(chunk_records) :
        /\ chunk_records[i].chunk_index \in 0..(Len(chunk_records) - 1)
        /\ Cardinality(RecordsWithIndex(chunk_records[i].chunk_index)) = 1

ActiveRuns == { r \in RunIds : runs[r].pc # "done" }

\* C27: for any file at most one ingestion pipeline run is scheduled or
\* running at a time; a process request that arrives while another run is
\* pending or in progress never starts a second run.
C27_OneRunAtATime ==
    tasks + Cardinality(ActiveRuns) <= 1

UpsertSucceeded(r) == runs[r].vector = "stored" /\ runs[r].pc \in {"finish", "done"}

\* C28: after an ingestion run in which the upsert into the vector index
\* succeeded, every chunk record whose embedding succeeded has its vector_id
\* persisted and equal to the id of its point in the index, and the run logs
\* no vector-storage failure.
C28_VectorIdPersisted ==
    \A r \in RunIds :
        UpsertSucceeded(r) =>
            /\ \A i \in runs[r].successful :
                   i \in vindex /\ chunk_records[i].vector_id = i
            /\ ~runs[r].vector_failure_logged

----------------------------------------------------------------------------
\* Properties of the /stream endpoint (checked under SpecChat)

SentTerminals == { i \in 1..Len(sent) : sent[i] \in {"error", "done"} }

\* C26: the event sequence the /stream endpoint sends to the client contains
\* exactly one terminal event (error xor done) and nothing after it,
\* including when storing the assistant message fails after the orchestrator
\* has emitted done.
C26_EndpointOneTerminal ==
    /\ Cardinality(SentTerminals) <= 1
    /\ \A i \in SentTerminals : i = Len(sent)
    /\ hpc = "closed" => Cardinality(SentTerminals) = 1

\* C29: for a streamed query an assistant message is persisted only after
\* the orchestrator's stream has ended with done; when the stream ends with
\* error after some content events, no partial assistant message is stored.
C29_StoredOnlyAfterDone ==
    assistant.stored =>
        /\ spc = "end"
        /\ assistant.stream_end = "done"
        /\ "error" \notin Range(sent)

====
